---------------------------- MODULE Spec2Model ----------------------------
(***************************************************************************)
(* Model of the measurement ingestion pipeline of eco-monitor:             *)
(*   database.py            get_db / execute_query / close_db (one psycopg *)
(*                          connection per application context)            *)
(*   utils/measurements_logic.py   location lookup-or-create, insert       *)
(*   data_sources/base_fetcher.py  persistence adapter                     *)
(*   data_sources/__init__.py      fetcher orchestrator                    *)
(*   data_sources/air_quality/open_meteo_fetcher.py,                       *)
(*   data_sources/weather/open_meteo_weather_fetcher.py                    *)
(*                          extractor, normalizer, response parsers, and   *)
(*                          the fetchers themselves                        *)
(*   run_all.py             statistics and exit code of main               *)
(*   utils/load_historical_data.py   the loop of the history loader        *)
(*                                                                         *)
(* Cyrillic identifiers of the source are transliterated:                  *)
(*   сохранить_измерения        -> sohranit_izmereniya                     *)
(*   найти_или_создать_источник -> nayti_ili_sozdat_istochnik              *)
(*   найти_или_создать_локацию  -> nayti_ili_sozdat_lokatsiyu              *)
(*   найти_parameter_id         -> nayti_parameter_id                      *)
(*   создать_измерение          -> sozdat_izmerenie                        *)
(*   запустить_все_сборщики     -> zapustit_vse_sborshchiki                *)
(*   получено / сохранено / ошибки -> polucheno / sohraneno / oshibki      *)
(***************************************************************************)
EXTENDS Integers, Sequences, FiniteSets, TLC

VARIABLES
    db,        \* the storage as seen through the context's connection
    loc_log,   \* SpecLoc, SpecSrc: the lookup-or-create calls made so far
    save,      \* the activation of сохранить_измерения
    orch,      \* the activation of запустить_все_сборщики
    fn,        \* SpecFn: a call of one of the functions of the fetchers;
               \* SpecRun: the activation of a fetcher; SpecCtx: the
               \* application context
    par        \* SpecPar: callers running lookup-or-create in parallel

vars == <<db, loc_log, save, orch, fn, par>>

(***************************************************************************)
(* Bounds of the model.                                                    *)
(***************************************************************************)
MaxCalls == 3
MaxBatch == 2

(***************************************************************************)
(* database.py: connection and statement execution.                        *)
(* conn: "none" (no 'db' in g) or "open".                                  *)
(* txn : psycopg opens a transaction with the first statement (autocommit  *)
(*       is off); a failed statement leaves it in error, and every later   *)
(*       statement on the connection is refused until a rollback, which    *)
(*       execute_query never issues.                                       *)
(* The environment decides each statement's fate: "ok", "connfail" (the    *)
(* connect in get_db raises) or "stmtfail" (cursor.execute raises).        *)
(***************************************************************************)
Faults(d) == IF d.conn = "none" THEN {"ok", "connfail", "stmtfail"}
                                ELSE {"ok", "stmtfail"}

\* get_db: reuse g.db, or connect; a failed connect leaves g without 'db'.
get_db(d, f) ==
    IF d.conn = "open" THEN [db |-> d, ok |-> TRUE]
    ELSE IF f = "connfail" THEN [db |-> d, ok |-> FALSE]
    ELSE [db |-> [d EXCEPT !.conn = "open", !.txn = "idle"], ok |-> TRUE]

\* execute_query up to cursor.execute: whether the statement runs, and the
\* connection state it leaves. The statement's own effect is applied by the
\* caller when ok.
execute_query(d, f) ==
    LET g == get_db(d, f) IN
    IF ~g.ok THEN [db |-> g.db, ok |-> FALSE, exc |-> "OperationalError"]
    ELSE IF g.db.txn = "inerror"
         THEN [db |-> g.db, ok |-> FALSE, exc |-> "InFailedSqlTransaction"]
    ELSE IF f = "stmtfail"
         THEN [db |-> [g.db EXCEPT !.txn = "inerror"], ok |-> FALSE, exc |-> "DatabaseError"]
    ELSE [db |-> [g.db EXCEPT !.txn = "intrans"], ok |-> TRUE, exc |-> "none"]

\* A statement refused by a constraint: the transaction is left in error.
ConstraintFailure(d) == [d EXCEPT !.txn = "inerror"]

(***************************************************************************)
(* Coordinates are integers in units of 10^-UNIT_DIGITS degree, one digit  *)
(* finer than the locations table stores.                                  *)
(***************************************************************************)
ROUND_DIGITS == 5
DECIMAL_SCALE == 7
UNIT_DIGITS == DECIMAL_SCALE + 1

RECURSIVE Pow10(_)
Pow10(n) == IF n = 0 THEN 1 ELSE 10 * Pow10(n - 1)

\* Nearest multiple of step, a tie going up (PostgreSQL numeric rounding of
\* a non-negative value: half away from zero).
RoundHalfUp(x, step) == ((x + step \div 2) \div step) * step

\* Nearest multiple of step, a tie going to the even multiple.
RoundHalfEven(x, step) ==
    LET q == x \div step
        r == x % step
    IN  IF 2 * r < step THEN q * step
        ELSE IF 2 * r > step THEN (q + 1) * step
        ELSE IF q % 2 = 0 THEN q * step ELSE (q + 1) * step

\* Faulty variant, for comparison: the digits after the 5th decimal are cut off, not rounded.
py_round_truncating(x) == (x \div Pow10(UNIT_DIGITS - ROUND_DIGITS)) * Pow10(UNIT_DIGITS - ROUND_DIGITS)

\* Python round(x, 5) on the float x. A decimal tie is decided by the binary
\* value of the float; the coordinates of this model are never ties.
py_round(x) == RoundHalfEven(x, Pow10(UNIT_DIGITS - ROUND_DIGITS))

\* The value a DECIMAL(10, 7) column keeps of a float parameter.
decimal_10_7(x) == RoundHalfUp(x, Pow10(UNIT_DIGITS - DECIMAL_SCALE))

\* SQL ROUND(col::numeric, 5) on a stored value.
sql_round(x) == RoundHalfUp(x, Pow10(UNIT_DIGITS - ROUND_DIGITS))

\* The digits up to the 5th decimal place (truncation).
Trunc5(x) == x \div Pow10(UNIT_DIGITS - ROUND_DIGITS)

\* SERIAL primary key of a table whose rows are never deleted.
NextId(table) == Cardinality(table) + 1

\* SELECT id FROM locations WHERE ROUND(latitude, 5) = %s AND
\* ROUND(longitude, 5) = %s: the rows that match.
LocationMatches(locations, lat_r, lon_r) ==
    {l \in locations : sql_round(l.latitude) = lat_r /\ sql_round(l.longitude) = lon_r}

\* CONSTRAINT unique_coordinates UNIQUE (latitude, longitude)
unique_coordinates(locations, lat, lon) ==
    \A l \in locations : ~(l.latitude = lat /\ l.longitude = lon)

NoResult == [ok |-> FALSE, id |-> 0]
Returned(i) == [ok |-> TRUE, id |-> i]

(***************************************************************************)
(* найти_или_создать_локацию(latitude, longitude).                         *)
(* f1, f2: the environment's fate of the SELECT and of the INSERT;         *)
(* pick: the row LIMIT 1 returns when several match (no ORDER BY).         *)
(* Result: [db, res] with res = Returned(id), or NoResult when a           *)
(* psycopg error propagates.                                               *)
(***************************************************************************)
nayti_ili_sozdat_lokatsiyu(d, latitude, longitude, f1, f2, pick) ==
    LET lat_r == py_round(latitude)
        lon_r == py_round(longitude)
        q1 == execute_query(d, f1)
        found == LocationMatches(q1.db.locations, lat_r, lon_r)
    IN  IF ~q1.ok THEN [db |-> q1.db, res |-> NoResult]
        ELSE IF found # {}
             THEN [db |-> q1.db,
                   res |-> Returned(IF pick \in found THEN pick.id
                                    ELSE (CHOOSE l \in found : TRUE).id)]
        ELSE LET q2 == execute_query(q1.db, f2)
                 lat_s == decimal_10_7(latitude)
                 lon_s == decimal_10_7(longitude)
                 new == NextId(q2.db.locations)
             IN  IF ~q2.ok THEN [db |-> q2.db, res |-> NoResult]
                 ELSE IF ~unique_coordinates(q2.db.locations, lat_s, lon_s)
                      THEN [db |-> ConstraintFailure(q2.db), res |-> NoResult]
                 ELSE [db |-> [q2.db EXCEPT !.locations = @ \cup
                                 {[id |-> new, latitude |-> lat_s, longitude |-> lon_s]}],
                       res |-> Returned(new)]

\* Faulty variant, for comparison: a parameter that is not found is added to the catalog.
nayti_parameter_id_autocreate(d, nazvanie, kategoriya, f) ==
    LET q == execute_query(d, f)
        rows == {p \in q.db.parameters : p.name = nazvanie /\ p.category = kategoriya}
        new == NextId(q.db.parameters)
    IN  IF ~q.ok THEN [db |-> q.db, ok |-> FALSE, id |-> 0, exc |-> q.exc]
        ELSE IF rows # {}
             THEN [db |-> q.db, ok |-> TRUE, id |-> (CHOOSE p \in rows : TRUE).id, exc |-> "none"]
        ELSE [db |-> [q.db EXCEPT !.parameters = @ \cup
                        {[id |-> new, name |-> nazvanie, category |-> kategoriya]}],
              ok |-> TRUE, id |-> new, exc |-> "none"]

(***************************************************************************)
(* найти_parameter_id(название, категория): pure lookup in the parameters  *)
(* table; category "" stands for a falsy category (lookup by name alone).  *)
(* Result id 0 stands for None.                                            *)
(***************************************************************************)
nayti_parameter_id(d, nazvanie, kategoriya, f) ==
    LET q == execute_query(d, f)
        rows == IF kategoriya # ""
                THEN {p \in q.db.parameters : p.name = nazvanie /\ p.category = kategoriya}
                ELSE {p \in q.db.parameters : p.name = nazvanie}
    IN  IF ~q.ok THEN [db |-> q.db, ok |-> FALSE, id |-> 0, exc |-> q.exc]
        ELSE IF rows # {}
             THEN [db |-> q.db, ok |-> TRUE, id |-> (CHOOSE p \in rows : TRUE).id, exc |-> "none"]
        ELSE [db |-> q.db, ok |-> TRUE, id |-> 0, exc |-> "none"]

\* Faulty variant, for comparison: the row is inserted without the lookup, into
\* a table without the UNIQUE constraint.
nayti_ili_sozdat_istochnik_no_lookup(d, nazvanie, f1, f2) ==
    LET q2 == execute_query(d, f2)
        new == NextId(q2.db.data_sources)
    IN  IF ~q2.ok THEN [db |-> q2.db, ok |-> FALSE, id |-> 0, exc |-> q2.exc]
        ELSE [db |-> [q2.db EXCEPT !.data_sources = @ \cup
                        {[id |-> new, name |-> nazvanie]}],
              ok |-> TRUE, id |-> new, exc |-> "none"]

(***************************************************************************)
(* найти_или_создать_источник(название, ...): SELECT by name, INSERT on a  *)
(* miss (data_sources.name is UNIQUE).                                     *)
(***************************************************************************)
nayti_ili_sozdat_istochnik(d, nazvanie, f1, f2) ==
    LET q1 == execute_query(d, f1)
        found == {s \in q1.db.data_sources : s.name = nazvanie}
    IN  IF ~q1.ok THEN [db |-> q1.db, ok |-> FALSE, id |-> 0, exc |-> q1.exc]
        ELSE IF found # {}
             THEN [db |-> q1.db, ok |-> TRUE, id |-> (CHOOSE s \in found : TRUE).id, exc |-> "none"]
        ELSE LET q2 == execute_query(q1.db, f2)
                 new == NextId(q2.db.data_sources)
             IN  IF ~q2.ok THEN [db |-> q2.db, ok |-> FALSE, id |-> 0, exc |-> q2.exc]
                 ELSE IF \E s \in q2.db.data_sources : s.name = nazvanie
                      THEN [db |-> ConstraintFailure(q2.db), ok |-> FALSE, id |-> 0,
                            exc |-> "UniqueViolation"]
                 ELSE [db |-> [q2.db EXCEPT !.data_sources = @ \cup
                                 {[id |-> new, name |-> nazvanie]}],
                       ok |-> TRUE, id |-> new, exc |-> "none"]

(***************************************************************************)
(* создать_измерение(parameter_id, value, latitude, longitude): resolve    *)
(* the location, then INSERT the row with measured_at = datetime.utcnow(). *)
(* a: the bound arguments, with idx the batch position (for the clock      *)
(* reading and the row's origin).                                          *)
(***************************************************************************)
sozdat_izmerenie_params == {"parameter_id", "value", "latitude", "longitude"}

utcnow(k) == <<"now", k>>

\* CONSTRAINT valid_value CHECK (value >= 0)
valid_value(v) == v >= 0

\* Lines 87-110: the INSERT, given the location and the statement's fate q.
vstavit_izmerenie(q, location_id, a) ==
    IF ~q.ok THEN [db |-> q.db, ok |-> FALSE, exc |-> q.exc]
    ELSE IF ~valid_value(a.value)
         THEN [db |-> ConstraintFailure(q.db), ok |-> FALSE, exc |-> "CheckViolation"]
    ELSE [db |-> [q.db EXCEPT !.measurements = @ \cup
                    {[id |-> NextId(q.db.measurements),
                      location_id |-> location_id,
                      parameter_id |-> a.parameter_id,
                      value |-> a.value,
                      measured_at |-> utcnow(a.idx),
                      origin |-> a.idx]}],
          ok |-> TRUE, exc |-> "none"]

\* Lines 84-100, given the outcome loc of найти_или_создать_локацию.
posle_lokatsii(loc, a, fi) ==
    IF ~loc.res.ok THEN [db |-> loc.db, ok |-> FALSE, exc |-> "DatabaseError"]
    ELSE vstavit_izmerenie(execute_query(loc.db, fi), loc.res.id, a)

sozdat_izmerenie(d, a, fl1, fl2, pick, fi) ==
    posle_lokatsii(nayti_ili_sozdat_lokatsiyu(d, a.latitude, a.longitude, fl1, fl2, pick),
                   a, fi)

(***************************************************************************)
(* сохранить_измерения: the body of the loop for one record (a Python      *)
(* dict: a function on the keys it has).                                   *)
(***************************************************************************)
obyazatelnye_polya == <<"parameter_name", "category", "value", "latitude", "longitude">>

\* Faulty variant, for comparison: only the first missing field is reported.
otsutstvuyushchie_first(izm) ==
    IF SelectSeq(obyazatelnye_polya, LAMBDA pole : pole \notin DOMAIN izm) = <<>> THEN <<>>
    ELSE <<Head(SelectSeq(obyazatelnye_polya, LAMBDA pole : pole \notin DOMAIN izm))>>

otsutstvuyushchie(izm) == SelectSeq(obyazatelnye_polya, LAMBDA pole : pole \notin DOMAIN izm)

\* The keyword arguments of the call at the end of the loop body.
call_keywords == {"parameter_id", "value", "latitude", "longitude",
                  "source_id", "extra_data", "nazvanie_lokatsii"}

\* Python binds a call only when every keyword names a parameter and every
\* parameter without a default is given; otherwise the call raises TypeError.
Binds(keywords, params) == keywords \subseteq params /\ params \subseteq keywords

\* float(x): a number converts, a non-numeric string raises ValueError.
float_ok(x) == x[1] = "num"

\* Faulty variant, for comparison: the loop has only the ValueError handler.
handles_value_only(exc) == exc = "ValueError"

\* The exception classes the loop's handlers take: ValueError, then Exception.
handles(exc) == TRUE

Oshibka(idx, kind, detail) == [idx |-> idx, kind |-> kind, detail |-> detail]

\* The outcome of one iteration: the storage, 1 or 0 rows saved, the error
\* strings appended, the statements attempted, the call to создать_измерение
\* attempted, and the exception that leaves the function, if any.
Iteration(d, queries, calls) ==
    [db |-> d, saved |-> 0, errs |-> <<>>, queries |-> queries, calls |-> calls,
     raised |-> "none"]

\* An exception inside the try: an error string when a handler takes it.
Caught(it, idx, kind, exc) ==
    IF handles(exc) THEN [it EXCEPT !.errs = <<Oshibka(idx, kind, <<exc>>)>>]
    ELSE [it EXCEPT !.raised = exc]

ParameterQuery(idx) == <<[idx |-> idx, table |-> "parameters"]>>
InsertQueries(idx) == <<[idx |-> idx, table |-> "locations"],
                        [idx |-> idx, table |-> "measurements"]>>

\* Lines 264-273: сохранено += 1 when the call returned, an error string
\* when it raised.
posle_vyzova(c, a) ==
    IF c.ok
    THEN [Iteration(c.db, ParameterQuery(a.idx) \o InsertQueries(a.idx), <<a>>)
             EXCEPT !.saved = 1]
    ELSE Caught(Iteration(c.db, ParameterQuery(a.idx) \o InsertQueries(a.idx), <<a>>),
                a.idx, "neozhidannaya_oshibka", c.exc)

\* Lines 253-262: the call of создать_измерение with its keyword arguments.
vyzov_sozdat_izmerenie(d, a, fate) ==
    IF ~Binds(call_keywords, sozdat_izmerenie_params)
    THEN Caught(Iteration(d, ParameterQuery(a.idx), <<a>>), a.idx,
                "neozhidannaya_oshibka", "TypeError")
    ELSE posle_vyzova(sozdat_izmerenie(d, a, fate.loc, fate.loc, fate.pick, fate.ins), a)

\* Lines 233-262: after the parameter lookup p.
posle_poiska(p, izm, idx, source_id, fate) ==
    IF ~p.ok
    THEN Caught(Iteration(p.db, ParameterQuery(idx), <<>>), idx,
                "neozhidannaya_oshibka", p.exc)
    ELSE IF p.id = 0
    THEN [Iteration(p.db, ParameterQuery(idx), <<>>) EXCEPT
            !.errs = <<Oshibka(idx, "parametr_ne_nayden", <<izm.parameter_name>>)>>]
    ELSE IF ~float_ok(izm.value)
    THEN Caught(Iteration(p.db, ParameterQuery(idx), <<>>), idx,
                "oshibka_preobrazovaniya", "ValueError")
    ELSE vyzov_sozdat_izmerenie(p.db,
             [idx |-> idx, parameter_id |-> p.id, value |-> izm.value[2],
              latitude |-> izm.latitude, longitude |-> izm.longitude,
              source_id |-> source_id],
             fate)

\* Lines 215-273: one iteration. fate: the environment's fate of each
\* statement the iteration may run.
telo_tsikla(d, izm, idx, source_id, fate) ==
    IF otsutstvuyushchie(izm) # <<>>
    THEN [Iteration(d, <<>>, <<>>) EXCEPT
            !.errs = <<Oshibka(idx, "otsutstvuyut_polya", otsutstvuyushchie(izm))>>]
    ELSE posle_poiska(nayti_parameter_id(d, izm.parameter_name, izm.category, fate.param),
                      izm, idx, source_id, fate)

(***************************************************************************)
(* Initial storage: no connection yet, the curated parameter catalog, no   *)
(* data source, location or measurement.                                   *)
(***************************************************************************)
Parameters ==
    { [id |-> 1, name |-> "PM10", category |-> "kachestvo_vozduha"],
      [id |-> 2, name |-> "temperature", category |-> "pogoda"] }

InitDb == [conn |-> "none", txn |-> "idle", data_sources |-> {},
           parameters |-> Parameters, locations |-> {}, measurements |-> {}]

\* The activation record of сохранить_измерения(список_измерений,
\* название_источника): pc is "idle", "entry", "loop", "returned" or "raised";
\* idx is the 1-based position of the next record (the source counts from 0).
SaveFrame(pc, batch, name) ==
    [pc |-> pc, batch |-> batch, name |-> name, idx |-> 1, source_id |-> 0,
     sohraneno |-> 0, oshibki |-> <<>>, queries |-> <<>>, calls |-> <<>>,
     exc |-> "none"]

SaveIdle == SaveFrame("idle", <<>>, "")

\* The activation record of запустить_все_сборщики: pc is "idle", "fetch"
\* (about to run fetcher cur), "saving" (fetcher cur is inside
\* сохранить_измерения), "done" or "raised"; rezultaty is the dict returned;
\* parsed keeps what each fetcher extracted before persisting.
EmptyDict == [k \in {} |-> 0]
OrchFrame(pc) == [pc |-> pc, cur |-> 1, rezultaty |-> EmptyDict, parsed |-> EmptyDict,
                  exc |-> "none"]
OrchIdle == OrchFrame("idle")

\* No pure-function call and no parallel caller.
FnIdle == [op |-> "idle"]
ParIdle == [op |-> "idle"]

(***************************************************************************)
(* сохранить_измерения, step by step.                                      *)
(***************************************************************************)
\* Faulty variant, for comparison: the data source is resolved before the list is
\* looked at.
sohranit_nachalo_source_first(d, s, f1, f2) ==
    LET r == nayti_ili_sozdat_istochnik(d, s.name, f1, f2) IN
    IF ~r.ok THEN [db |-> r.db, save |-> [s EXCEPT !.pc = "raised", !.exc = r.exc]]
    ELSE IF s.batch = <<>> THEN [db |-> r.db, save |-> [s EXCEPT !.pc = "returned"]]
    ELSE [db |-> r.db, save |-> [s EXCEPT !.pc = "loop", !.source_id = r.id]]

\* Lines 201-213: the empty-list return, then the data source, resolved
\* outside the loop's try: its exception leaves the function.
sohranit_nachalo(d, s, f1, f2) ==
    IF s.batch = <<>>
    THEN [db |-> d, save |-> [s EXCEPT !.pc = "returned"]]
    ELSE LET r == nayti_ili_sozdat_istochnik(d, s.name, f1, f2) IN
         IF r.ok
         THEN [db |-> r.db, save |-> [s EXCEPT !.pc = "loop", !.source_id = r.id]]
         ELSE [db |-> r.db, save |-> [s EXCEPT !.pc = "raised", !.exc = r.exc]]

\* The loop's bookkeeping after an iteration with outcome r.
posle_iteratsii(s, r) ==
    [db |-> r.db,
     save |-> [s EXCEPT !.idx = @ + 1,
                        !.sohraneno = @ + r.saved,
                        !.oshibki = @ \o r.errs,
                        !.queries = @ \o r.queries,
                        !.calls = @ \o r.calls,
                        !.pc = IF r.raised = "none" THEN "loop" ELSE "raised",
                        !.exc = r.raised]]

\* Faulty variant, for comparison: the list is walked from its end.
sohranit_shag_reversed(d, s, fate) ==
    posle_iteratsii(s, telo_tsikla(d, s.batch[Len(s.batch) + 1 - s.idx], s.idx, s.source_id, fate))

\* Lines 215-273: one iteration of the loop.
sohranit_shag(d, s, fate) ==
    posle_iteratsii(s, telo_tsikla(d, s.batch[s.idx], s.idx, s.source_id, fate))

Fates(d) == [param : Faults(d), loc : {"ok", "stmtfail"}, ins : {"ok", "stmtfail"},
             pick : {[id |-> 0, latitude |-> 0, longitude |-> 0]}]

SaveBegin ==
    /\ save.pc = "entry"
    /\ \E f1 \in Faults(db), f2 \in {"ok", "stmtfail"} :
          LET r == sohranit_nachalo(db, save, f1, f2) IN
          /\ db' = r.db
          /\ save' = r.save
    /\ UNCHANGED <<loc_log, orch, fn, par>>

SaveRecord ==
    /\ save.pc = "loop"
    /\ save.idx <= Len(save.batch)
    /\ \E fate \in Fates(db) :
          LET r == sohranit_shag(db, save, fate) IN
          /\ db' = r.db
          /\ save' = r.save
    /\ UNCHANGED <<loc_log, orch, fn, par>>

\* Line 277: return сохранено, ошибки.
SaveReturn ==
    /\ save.pc = "loop"
    /\ save.idx > Len(save.batch)
    /\ save' = [save EXCEPT !.pc = "returned"]
    /\ UNCHANGED <<db, loc_log, orch, fn, par>>

(***************************************************************************)
(* SpecSave: one call of сохранить_измерения on any batch of up to         *)
(* MaxBatch records, the data source known already or not.                 *)
(***************************************************************************)
Obs(n) == <<"obs", n>>

RecValid ==
    [parameter_name |-> "PM10", category |-> "kachestvo_vozduha", value |-> <<"num", 12>>,
     latitude |-> 400, longitude |-> 0, timestamp |-> Obs(1)]
RecTemperature ==
    [parameter_name |-> "temperature", category |-> "pogoda", value |-> <<"num", -5>>,
     latitude |-> 600, longitude |-> 1600, timestamp |-> Obs(2)]
RecNoLatitude ==
    [parameter_name |-> "PM10", category |-> "kachestvo_vozduha", value |-> <<"num", 7>>,
     longitude |-> 0, timestamp |-> Obs(1)]
RecNameOnly == [parameter_name |-> "PM10"]
RecUnknown ==
    [parameter_name |-> "unknown_param", category |-> "unknown", value |-> <<"num", 25>>,
     latitude |-> 400, longitude |-> 0, timestamp |-> Obs(1)]
RecBadValue ==
    [parameter_name |-> "PM10", category |-> "kachestvo_vozduha", value |-> <<"str", 0>>,
     latitude |-> 400, longitude |-> 0, timestamp |-> Obs(1)]

RecordSet == {RecValid, RecTemperature, RecNoLatitude, RecNameOnly, RecUnknown, RecBadValue}

SeqsUpTo(S, n) == UNION {[1..k -> S] : k \in 0..n}

TestSource == "Test API"

InitSave ==
    /\ \E known \in BOOLEAN :
          db = [InitDb EXCEPT !.data_sources =
                   IF known THEN {[id |-> 1, name |-> TestSource]} ELSE {}]
    /\ loc_log = <<>>
    /\ \E batch \in SeqsUpTo(RecordSet, MaxBatch) :
          save = SaveFrame("entry", batch, TestSource)
    /\ orch = OrchIdle
    /\ fn = FnIdle
    /\ par = ParIdle

NextSave == SaveBegin \/ SaveRecord \/ SaveReturn

SpecSave == InitSave /\ [][NextSave]_vars

(***************************************************************************)
(* SpecLoc: sequential найти_или_создать_локацию calls.                    *)
(***************************************************************************)
LatSet == {400, 496, 600, 1400}
LonSet == {0, 1600}

InitLoc ==
    /\ db = InitDb
    /\ loc_log = <<>>
    /\ save = SaveIdle
    /\ orch = OrchIdle
    /\ fn = FnIdle
    /\ par = ParIdle

LocCall ==
    /\ Len(loc_log) < MaxCalls
    /\ \E lat \in LatSet, lon \in LonSet, f1 \in Faults(db), f2 \in {"ok", "stmtfail"} :
       \E pick \in db.locations \cup {[id |-> 0, latitude |-> 0, longitude |-> 0]} :
          LET r == nayti_ili_sozdat_lokatsiyu(db, lat, lon, f1, f2, pick) IN
          /\ db' = r.db
          /\ loc_log' = Append(loc_log,
                 [latitude |-> lat, longitude |-> lon, res |-> r.res])
    /\ UNCHANGED <<save, orch, fn, par>>

NextLoc == LocCall

SpecLoc == InitLoc /\ [][NextLoc]_vars

(***************************************************************************)
(* SpecSrc: sequential найти_или_создать_источник calls in one context.    *)
(***************************************************************************)
SourceNameSet == {"Open-Meteo Air Quality API", "Open-Meteo Weather API", TestSource}

InitSrc ==
    /\ db = InitDb
    /\ loc_log = <<>>
    /\ save = SaveIdle
    /\ orch = OrchIdle
    /\ fn = FnIdle
    /\ par = ParIdle

SrcCall ==
    /\ Len(loc_log) < MaxCalls
    /\ \E name \in SourceNameSet, f1 \in Faults(db), f2 \in {"ok", "stmtfail"} :
          LET r == nayti_ili_sozdat_istochnik(db, name, f1, f2) IN
          /\ db' = r.db
          /\ loc_log' = Append(loc_log,
                 [name |-> name, before |-> db.data_sources,
                  after |-> r.db.data_sources, ok |-> r.ok, id |-> r.id])
    /\ UNCHANGED <<save, orch, fn, par>>

NextSrc == SrcCall

SpecSrc == InitSrc /\ [][NextSrc]_vars

(***************************************************************************)
(* SpecPar: two callers (two application contexts, each with its own       *)
(* connection and transaction) run найти_или_создать_источник or           *)
(* найти_или_создать_локацию at the same time, one statement per step.     *)
(* PostgreSQL, READ COMMITTED: a SELECT sees the committed rows and the    *)
(* caller's own; an INSERT whose unique key is held by a visible row       *)
(* fails; one whose key is held by another transaction's uncommitted row   *)
(* waits for that transaction to end. close_db commits at the teardown of  *)
(* the context.                                                            *)
(* pc of a caller: "select", "insert", "returned", "raised", "closed".     *)
(***************************************************************************)
Callers == {1, 2}

ParCaller(arg) == [pc |-> "select", arg |-> arg, own |-> {}, id |-> 0, exc |-> "none"]

ParFrame(op, committed, args) ==
    [op |-> op, initial |-> committed, committed |-> committed,
     seq |-> Cardinality(committed),
     callers |-> [c \in Callers |-> ParCaller(args[c])]]

\* The rows a statement of caller c sees.
Visible(p, c) == p.committed \cup p.callers[c].own

\* The uncommitted rows of the other callers' open transactions.
Pending(p, c) ==
    UNION {p.callers[o].own : o \in {x \in Callers \ {c} : p.callers[x].pc # "closed"}}

\* The rows the SELECT of the operation returns for the argument.
par_found(op, rows, arg) ==
    IF op = "istochnik" THEN {s \in rows : s.name = arg}
    ELSE LocationMatches(rows, py_round(arg.latitude), py_round(arg.longitude))

\* The row the INSERT of the operation writes.
par_row(op, arg, id) ==
    IF op = "istochnik" THEN [id |-> id, name |-> arg]
    ELSE [id |-> id, latitude |-> decimal_10_7(arg.latitude),
          longitude |-> decimal_10_7(arg.longitude)]

\* The UNIQUE constraint of the table: name, or (latitude, longitude).
par_unique(op, rows, row) ==
    IF op = "istochnik" THEN \A s \in rows : s.name # row.name
    ELSE unique_coordinates(rows, row.latitude, row.longitude)

\* The lookup statement and the branch on its result.
par_select(p, c, pick) ==
    [p EXCEPT !.callers[c] =
        IF par_found(p.op, Visible(p, c), @.arg) # {}
        THEN [@ EXCEPT !.pc = "returned", !.id = pick.id]
        ELSE [@ EXCEPT !.pc = "insert"]]

\* The INSERT ... RETURNING id statement, once it does not have to wait.
par_insert(p, c) ==
    IF par_unique(p.op, Visible(p, c), par_row(p.op, p.callers[c].arg, p.seq + 1))
    THEN [p EXCEPT !.seq = @ + 1,
                   !.callers[c] = [@ EXCEPT !.pc = "returned", !.id = p.seq + 1,
                                            !.own = @ \cup {par_row(p.op, p.callers[c].arg, p.seq + 1)}]]
    ELSE [p EXCEPT !.seq = @ + 1,
                   !.callers[c] = [@ EXCEPT !.pc = "raised", !.exc = "UniqueViolation"]]

\* close_db: commit after a return, rollback after an exception.
par_close(p, c) ==
    [p EXCEPT !.committed = IF p.callers[c].pc = "returned" THEN @ \cup p.callers[c].own ELSE @,
              !.callers[c] = [@ EXCEPT !.pc = "closed", !.own = {}]]

ParSelect ==
    /\ par.op # "idle"
    /\ \E c \in Callers :
          /\ par.callers[c].pc = "select"
          /\ \E pick \in par_found(par.op, Visible(par, c), par.callers[c].arg)
                           \cup {[id |-> 0]} :
                /\ (par_found(par.op, Visible(par, c), par.callers[c].arg) # {}) => pick.id # 0
                /\ par' = par_select(par, c, pick)
    /\ UNCHANGED <<db, loc_log, save, orch, fn>>

ParInsert ==
    /\ par.op # "idle"
    /\ \E c \in Callers :
          /\ par.callers[c].pc = "insert"
          /\ par_unique(par.op, Pending(par, c), par_row(par.op, par.callers[c].arg, 0))
          /\ par' = par_insert(par, c)
    /\ UNCHANGED <<db, loc_log, save, orch, fn>>

ParClose ==
    /\ par.op # "idle"
    /\ \E c \in Callers :
          /\ par.callers[c].pc \in {"returned", "raised"}
          /\ par' = par_close(par, c)
    /\ UNCHANGED <<db, loc_log, save, orch, fn>>

Point(lat, lon) == [latitude |-> lat, longitude |-> lon]
ParPoints == {Point(400, 0), Point(420, 0), Point(1400, 0), Point(400, 1600)}

InitPar ==
    /\ db = InitDb
    /\ loc_log = <<>>
    /\ save = SaveIdle
    /\ orch = OrchIdle
    /\ fn = FnIdle
    /\ \/ \E args \in [Callers -> SourceNameSet], known \in SUBSET {TestSource} :
             par = ParFrame("istochnik", {[id |-> 1, name |-> n] : n \in known}, args)
       \/ \E args \in [Callers -> ParPoints] :
             par = ParFrame("lokatsiya", {}, args)

NextPar == ParSelect \/ ParInsert \/ ParClose

SpecPar == InitPar /\ [][NextPar]_vars

(***************************************************************************)
(* запустить_все_сборщики: the two fetchers in turn, each inside its own   *)
(* try / except Exception.                                                 *)
(***************************************************************************)
Fetchers == <<"open_meteo_air_quality", "open_meteo_weather">>

SourceNames == <<"Open-Meteo Air Quality API", "Open-Meteo Weather API">>

Rezultat(polucheno, sohraneno, oshibki) ==
    [polucheno |-> polucheno, sohraneno |-> sohraneno, oshibki |-> oshibki]

\* Faulty variant, for comparison: the handlers take only storage errors.
orch_handles_storage_only(exc) == exc \in {"OperationalError", "DatabaseError"}

\* except Exception as e: every exception of the model is an Exception.
orch_handles(exc) == TRUE

\* The except branch: {'получено': 0, 'сохранено': 0, 'ошибки': [str(e)]}.
rezultat_isklyucheniya(exc) == Rezultat(0, 0, <<Oshibka(0, "isklyuchenie", <<exc>>)>>)

\* Faulty variant, for comparison: an early return without a message.
rezultat_oshibki_silent(msg) == Rezultat(0, 0, <<>>)

\* The early returns of a fetcher: one message, nothing received.
rezultat_oshibki(msg) == Rezultat(0, 0, <<Oshibka(0, msg, <<>>)>>)

\* The records the parsers emit in this model: complete records of the
\* fetcher's own category; the catalog may lack a weather parameter.
RecPrecipitation ==
    [parameter_name |-> "precipitation", category |-> "pogoda", value |-> <<"num", 3>>,
     latitude |-> 600, longitude |-> 1600, timestamp |-> Obs(2)]

ParserRecords == <<{RecValid}, {RecTemperature, RecPrecipitation}>>

NonEmptySeqsUpTo(S, n) == UNION {[1..k -> S] : k \in 1..n}

\* What a fetcher does before it persists: an exception of its own (e.g. a
\* payload whose 'hourly' is null), an early return with one message (no
\* response, nothing parsed, bad configuration), or a non-empty batch.
FetchOutcomes(cur) ==
    {[kind |-> "raise", exc |-> "TypeError", msg |-> "", batch |-> <<>>]}
    \cup {[kind |-> "error", exc |-> "none", msg |-> m, batch |-> <<>>] :
             m \in {"net_otveta", "ne_udalos_rasparsit", "nevalidnye_koordinaty"}}
    \cup {[kind |-> "records", exc |-> "none", msg |-> "", batch |-> b] :
             b \in NonEmptySeqsUpTo(ParserRecords[cur], MaxBatch)}

\* The orchestrator after fetcher cur ended with result r, or with exception
\* exc ("none" when it returned).
posle_sborshchika(o, r, exc) ==
    IF exc # "none" /\ ~orch_handles(exc)
    THEN [o EXCEPT !.pc = "raised", !.exc = exc]
    ELSE [o EXCEPT
            !.rezultaty = (Fetchers[o.cur] :>
                             (IF exc # "none" THEN rezultat_isklyucheniya(exc) ELSE r)) @@ @,
            !.cur = @ + 1,
            !.pc = IF o.cur = Len(Fetchers) THEN "done" ELSE "fetch"]

\* The fetcher up to its call of сохранить_измерения.
FetcherStart ==
    /\ orch.pc = "fetch"
    /\ \E out \in FetchOutcomes(orch.cur) :
          LET o == [orch EXCEPT !.parsed = (Fetchers[orch.cur] :> out) @@ @] IN
          IF out.kind = "records"
          THEN /\ save' = SaveFrame("entry", out.batch, SourceNames[orch.cur])
               /\ orch' = [o EXCEPT !.pc = "saving"]
          ELSE /\ save' = save
               /\ orch' = posle_sborshchika(o, rezultat_oshibki(out.msg), out.exc)
    /\ UNCHANGED <<db, loc_log, fn, par>>

\* сохранить_измерения has returned or raised: the fetcher's result.
FetcherFinish ==
    /\ orch.pc = "saving"
    /\ save.pc \in {"returned", "raised"}
    /\ orch' = posle_sborshchika(orch,
                   Rezultat(Len(save.batch), save.sohraneno, save.oshibki),
                   IF save.pc = "raised" THEN save.exc ELSE "none")
    /\ save' = SaveIdle
    /\ UNCHANGED <<db, loc_log, fn, par>>

Init ==
    /\ db = InitDb
    /\ loc_log = <<>>
    /\ save = SaveIdle
    /\ orch = OrchFrame("fetch")
    /\ fn = FnIdle
    /\ par = ParIdle

Next == FetcherStart \/ SaveBegin \/ SaveRecord \/ SaveReturn \/ FetcherFinish

Spec == Init /\ [][Next]_vars

(***************************************************************************)
(* получить_измерения_с_фильтрами(parameter_id=...): measurements joined   *)
(* with their location, filtered by parameter id.                          *)
(***************************************************************************)
poluchit_izmereniya_s_filtrami(d, parameter_id) ==
    {[id |-> m.id, parameter_id |-> m.parameter_id, location_id |-> m.location_id,
      value |-> m.value, latitude |-> l.latitude, longitude |-> l.longitude,
      measured_at |-> m.measured_at, origin |-> m.origin] :
        <<m, l>> \in {ml \in d.measurements \X d.locations :
                        /\ ml[1].location_id = ml[2].id
                        /\ ml[1].parameter_id = parameter_id}}

(***************************************************************************)
(* Vocabulary of the claims about сохранить_измерения.                     *)
(***************************************************************************)
RequiredFields == {"parameter_name", "category", "value", "latitude", "longitude"}
Lacks(izm) == RequiredFields \ DOMAIN izm
Complete(izm) == Lacks(izm) = {}
Resolvable(izm) ==
    \E p \in Parameters : p.name = izm.parameter_name /\ p.category = izm.category
\* A record the claims call valid: complete, resolvable, a non-negative number.
Sound(izm) ==
    /\ Complete(izm)
    /\ Resolvable(izm)
    /\ izm.value[1] = "num"
    /\ izm.value[2] >= 0
Processed == 1..(save.idx - 1)
ErrorsOf(i) == {k \in 1..Len(save.oshibki) : save.oshibki[k].idx = i}
QueriesOf(i) == {k \in 1..Len(save.queries) : save.queries[k].idx = i}
CallsOf(i) == {k \in 1..Len(save.calls) : save.calls[k].idx = i}
SaveReturned == save.pc = "returned"
\* No statement of the run has failed and the connection was made.
StorageAnswered == db.conn = "open" /\ db.txn # "inerror"
StorageExceptions == {"OperationalError", "InFailedSqlTransaction", "DatabaseError",
                      "UniqueViolation", "CheckViolation"}
Range(q) == {q[k] : k \in 1..Len(q)}

(***************************************************************************)
(* Vocabulary of the claims about запустить_все_сборщики.                  *)
(***************************************************************************)
FetcherNames == {Fetchers[k] : k \in 1..Len(Fetchers)}

WellFormed(r) ==
    /\ DOMAIN r = {"polucheno", "sohraneno", "oshibki"}
    /\ r.polucheno \in Nat
    /\ r.sohraneno \in Nat
    /\ DOMAIN r.oshibki = 1..Len(r.oshibki)
    /\ \A k \in 1..Len(r.oshibki) : r.oshibki[k].kind \in STRING

\* The fetcher's entry was written by the orchestrator's except branch.
RaisedInside(name) ==
    /\ name \in DOMAIN orch.rezultaty
    /\ orch.rezultaty[name].oshibki # <<>>
    /\ orch.rezultaty[name].oshibki[1].kind = "isklyuchenie"

\* сохранить_измерения run to its end on a context of its own where every
\* statement succeeds.
OkFate == [param |-> "ok", loc |-> "ok", ins |-> "ok",
           pick |-> [id |-> 0, latitude |-> 0, longitude |-> 0]]

RECURSIVE RunAlone(_)
RunAlone(r) ==
    IF r.save.pc = "entry" THEN RunAlone(sohranit_nachalo(r.db, r.save, "ok", "ok"))
    ELSE IF r.save.pc = "loop" /\ r.save.idx <= Len(r.save.batch)
    THEN RunAlone(sohranit_shag(r.db, r.save, OkFate))
    ELSE r.save

AloneSaved(s) == Rezultat(Len(s.batch), s.sohraneno, s.oshibki)

\* The entry a fetcher produces from what it extracted when nothing of the
\* other fetcher reaches it.
Alone(out, cur) ==
    IF out.kind = "raise" THEN rezultat_isklyucheniya(out.exc)
    ELSE IF out.kind = "error" THEN rezultat_oshibki(out.msg)
    ELSE AloneSaved(RunAlone([db |-> InitDb,
                              save |-> SaveFrame("entry", out.batch, SourceNames[cur])]))

\* No statement of the fetcher's own run was failed by the environment: its
\* entry names no storage exception other than the refusal of a transaction
\* that is in error already.
NoOwnFault(name) ==
    \A k \in 1..Len(orch.rezultaty[name].oshibki) :
       \A x \in Range(orch.rezultaty[name].oshibki[k].detail) :
          x \notin {"OperationalError", "DatabaseError", "UniqueViolation", "CheckViolation"}

\* C1: whatever the two fetchers do (result, error result, exception),
\* запустить_все_сборщики returns without raising, and the mapping it
\* returns has exactly the two fetcher names as keys, each with получено
\* (int), сохранено (int) and ошибки (list of strings).
C1_ResultWellFormed ==
    /\ orch.pc # "raised"
    /\ \A n \in DOMAIN orch.rezultaty : WellFormed(orch.rezultaty[n])
    /\ orch.pc = "done" => DOMAIN orch.rezultaty = FetcherNames

C1_Witness ==
    /\ orch.pc = "done"
    /\ orch.parsed[Fetchers[1]].kind = "raise"
    /\ RaisedInside(Fetchers[1])
    /\ orch.parsed[Fetchers[2]].kind = "records"
    /\ RaisedInside(Fetchers[2])

\* C2 (as claimed): when one fetcher raises an unhandled exception, its
\* entry is {получено: 0, сохранено: 0, ошибки: [message]} and the other
\* fetcher's entry is what that fetcher produces on its own.
C2_OtherFetcherUnaffected ==
    orch.pc = "done" =>
       \A f, g \in 1..Len(Fetchers) :
          (f # g /\ RaisedInside(Fetchers[f])) =>
             /\ orch.rezultaty[Fetchers[f]].polucheno = 0
             /\ orch.rezultaty[Fetchers[f]].sohraneno = 0
             /\ Len(orch.rezultaty[Fetchers[f]].oshibki) = 1
             /\ NoOwnFault(Fetchers[g]) =>
                   orch.rezultaty[Fetchers[g]] = Alone(orch.parsed[Fetchers[g]], g)

\* C3 (as claimed): a batch of N records of which M lack a required field, the
\* others valid and resolvable, returns сохранено = N - M and at least M
\* errors; a batch of valid records returns N and no error.
C3_SavedIsNMinusM ==
    (/\ SaveReturned
     /\ StorageAnswered
     /\ \A i \in 1..Len(save.batch) : Complete(save.batch[i]) => Sound(save.batch[i]))
    => LET N == Len(save.batch)
           M == Cardinality({i \in 1..Len(save.batch) : ~Complete(save.batch[i])})
       IN  /\ save.sohraneno = N - M
           /\ Len(save.oshibki) >= M
           /\ (M = 0 => save.oshibki = <<>>)

\* C4: a record lacking required fields causes no parameter lookup, no call
\* of создать_измерение and no row; it adds exactly one error string, which
\* names exactly the missing fields, and the loop goes on; a batch of one
\* record without latitude returns (0, [error naming latitude]).
C4_MissingFieldsSkipped ==
    /\ \A i \in Processed :
          ~Complete(save.batch[i]) =>
             /\ QueriesOf(i) = {}
             /\ CallsOf(i) = {}
             /\ \A m \in db.measurements : m.origin # i
             /\ Cardinality(ErrorsOf(i)) = 1
             /\ \A k \in ErrorsOf(i) :
                   /\ save.oshibki[k].kind = "otsutstvuyut_polya"
                   /\ Range(save.oshibki[k].detail) = Lacks(save.batch[i])
                   /\ Len(save.oshibki[k].detail) = Cardinality(Lacks(save.batch[i]))
             /\ save.pc \in {"loop", "returned"}
    /\ (SaveReturned /\ save.batch = <<RecNoLatitude>>) =>
          /\ save.sohraneno = 0
          /\ Len(save.oshibki) = 1
          /\ save.oshibki[1].detail = <<"latitude">>

C4_Witness ==
    /\ SaveReturned
    /\ Len(save.batch) = 2
    /\ ~Complete(save.batch[1])
    /\ Cardinality(Lacks(save.batch[1])) > 1
    /\ ErrorsOf(2) # {}

C6_UnknownParameterSkipped ==
    /\ db.parameters = Parameters
    /\ \A i \in Processed :
          (Complete(save.batch[i]) /\ ~Resolvable(save.batch[i])) =>
             /\ Cardinality(ErrorsOf(i)) = 1
             /\ \A k \in ErrorsOf(i) :
                   \/ save.oshibki[k].kind = "parametr_ne_nayden"
                   \/ /\ save.oshibki[k].kind = "neozhidannaya_oshibka"
                      /\ save.oshibki[k].detail[1] \in StorageExceptions
             /\ CallsOf(i) = {}
             /\ \A k \in QueriesOf(i) : save.queries[k].table = "parameters"
             /\ \A m \in db.measurements : m.origin # i
             /\ save.pc \in {"loop", "returned"}

C6_Witness ==
    /\ SaveReturned
    /\ Len(save.batch) = 2
    /\ Complete(save.batch[1]) /\ ~Resolvable(save.batch[1])
    /\ \E k \in ErrorsOf(1) : save.oshibki[k].kind = "parametr_ne_nayden"
    /\ CallsOf(2) # {}

\* C7 (as claimed): every record that сохранить_измерения accepts is written
\* as a measurements row whose measured_at is the record's timestamp.
C7_MeasuredAtIsTimestamp ==
    (SaveReturned /\ StorageAnswered) =>
       \A i \in 1..Len(save.batch) :
          Sound(save.batch[i]) =>
             \E m \in db.measurements :
                /\ m.origin = i
                /\ m.measured_at = save.batch[i].timestamp

\* C8 (as claimed): a valid record with a resolvable parameter results in
\* exactly one new row, retrievable with the resolved parameter id, the
\* record's value and a location at the record's rounded coordinates.
C8_RoundTrip ==
    (SaveReturned /\ StorageAnswered) =>
       \A i \in 1..Len(save.batch) :
          Sound(save.batch[i]) =>
             \E p \in Parameters :
                /\ p.name = save.batch[i].parameter_name
                /\ Cardinality({r \in poluchit_izmereniya_s_filtrami(db, p.id) :
                                   r.origin = i}) = 1
                /\ \A r \in poluchit_izmereniya_s_filtrami(db, p.id) :
                      r.origin = i =>
                         /\ r.value = save.batch[i].value[2]
                         /\ sql_round(r.latitude) = sql_round(save.batch[i].latitude)
                         /\ sql_round(r.longitude) = sql_round(save.batch[i].longitude)

\* C9 (as claimed): every measurement that сохранить_измерения hands to
\* создать_измерение has value >= 0: a negative value is rejected before.
C9_NoNegativeHandedToInsert ==
    \A k \in 1..Len(save.calls) : save.calls[k].value >= 0


(***************************************************************************)
(* Vocabulary of the claims about найти_или_создать_локацию.               *)
(***************************************************************************)
Grid5 == Pow10(UNIT_DIGITS - ROUND_DIGITS)
Nearest5(x) == ((2 * x + Grid5) \div (2 * Grid5)) * Grid5
\* A coordinate the locations table stores as given (at most 7 decimals)
\* and that is not halfway between two 5-decimal values.
Plain(x) == x % Pow10(UNIT_DIGITS - DECIMAL_SCALE) = 0 /\ 2 * (x % Grid5) # Grid5
PlainCall(c) == c.res.ok /\ Plain(c.latitude) /\ Plain(c.longitude)
SameDigits5(c1, c2) ==
    Trunc5(c1.latitude) = Trunc5(c2.latitude) /\ Trunc5(c1.longitude) = Trunc5(c2.longitude)
SameRounded5(c1, c2) ==
    Nearest5(c1.latitude) = Nearest5(c2.latitude)
    /\ Nearest5(c1.longitude) = Nearest5(c2.longitude)
\* The table holds at most one row per rounded coordinate pair.
OneRowPerRounded ==
    \A l1, l2 \in db.locations :
       (sql_round(l1.latitude) = sql_round(l2.latitude)
        /\ sql_round(l1.longitude) = sql_round(l2.longitude)) => l1 = l2

MaxLen == 3

None == <<"None">>
Num(n) == <<"num", n>>
Metka(t, zone) == <<"str", t, zone>>
BadMetka == <<"str", 0, "?">>

\* Faulty variant, for comparison: the trailing Z is left in place.
replace_Z_kept(m) ==
    IF m = None THEN [ok |-> FALSE, exc |-> "AttributeError", s |-> None]
    ELSE [ok |-> TRUE, exc |-> "none", s |-> m]

\* временная_метка.replace('Z', '+00:00'); None has no replace.
replace_Z(m) ==
    IF m = None THEN [ok |-> FALSE, exc |-> "AttributeError", s |-> None]
    ELSE [ok |-> TRUE, exc |-> "none",
          s |-> IF m[3] = "Z" THEN Metka(m[2], "+00:00") ELSE m]

\* datetime.fromisoformat(s): a naive or an aware datetime, or ValueError.
fromisoformat(s) ==
    IF s[3] \in {"", "+00:00"}
    THEN [ok |-> TRUE, exc |-> "none", dt |-> <<"datetime", s[2], s[3]>>]
    ELSE [ok |-> FALSE, exc |-> "ValueError", dt |-> None]

\* Line 67.
razobrat_metku(m) ==
    IF ~replace_Z(m).ok THEN [ok |-> FALSE, exc |-> replace_Z(m).exc, dt |-> None]
    ELSE fromisoformat(replace_Z(m).s)

\* Faulty variant, for comparison: 'if значение:' takes 0 for a missing value.
is_truthy(v) == v # None /\ v # Num(0)

\* Line 64: значение is not None.
is_not_None(v) == v # None

\* Line 69: except (ValueError, AttributeError).
metka_handles(exc) == exc \in {"ValueError", "AttributeError"}

NoData == [val |-> None, ts |-> None, raised |-> "none"]

\* Lines 63-73: the pairs from the last to the first.
RECURSIVE skanirovat(_, _, _)
skanirovat(ryad, metki, i) ==
    IF i = 0 THEN NoData
    ELSE IF ~is_not_None(ryad[i]) THEN skanirovat(ryad, metki, i - 1)
    ELSE IF razobrat_metku(metki[i]).ok
         THEN [val |-> ryad[i], ts |-> razobrat_metku(metki[i]).dt, raised |-> "none"]
    ELSE IF metka_handles(razobrat_metku(metki[i]).exc)
         THEN skanirovat(ryad, metki, i - 1)
    ELSE [val |-> None, ts |-> None, raised |-> razobrat_metku(metki[i]).exc]

poluchit_poslednee_znachenie(ryad, metki) ==
    IF ryad = <<>> \/ metki = <<>> THEN NoData
    ELSE IF Len(ryad) # Len(metki) THEN NoData
    ELSE skanirovat(ryad, metki, Len(ryad))

\* The time series and label arrays of a payload, up to MaxLen entries; the
\* label at position i names hour i.
Values == {None, Num(0), Num(12)}
Ryady == SeqsUpTo(Values, MaxLen)
MetkiAt(i) == {Metka(i, ""), Metka(i, "Z"), BadMetka, None}
RECURSIVE MetkiLen(_)
MetkiLen(k) ==
    IF k = 0 THEN {<<>>} ELSE {Append(m, x) : m \in MetkiLen(k - 1), x \in MetkiAt(k)}
Metki == UNION {MetkiLen(k) : k \in 0..MaxLen}

FnCall(op, args) == [op |-> op, pc |-> "call", args |-> args, res |-> None]

ExtractorCalled ==
    \E r \in Ryady, m \in Metki : fn = FnCall("poluchit_poslednee_znachenie", <<r, m>>)

Extract ==
    /\ fn.op = "poluchit_poslednee_znachenie"
    /\ fn.pc = "call"
    /\ fn' = [fn EXCEPT !.pc = "done",
                        !.res = poluchit_poslednee_znachenie(fn.args[1], fn.args[2])]
    /\ UNCHANGED <<db, loc_log, save, orch, par>>

(***************************************************************************)
(* нормализовать_значение(значение, параметр, db_param) of the weather     *)
(* fetcher. Values are whole numbers of the parameter's unit.              *)
(***************************************************************************)
MaxAbs == 725

PARAMETER_MAPPING ==
    [temperature_2m |-> "temperature", relative_humidity_2m |-> "humidity",
     wind_speed_10m |-> "wind_speed", wind_direction_10m |-> "wind_direction",
     precipitation |-> "precipitation", surface_pressure |-> "pressure"]

FULL_TURN == 360

\* Lines 97-98: while значение < 0: значение += 360
RECURSIVE poka_otritsatelno(_)
poka_otritsatelno(v) == IF v < 0 THEN poka_otritsatelno(v + FULL_TURN) ELSE v

\* Lines 100-101: while значение >= 360: значение -= 360
RECURSIVE poka_ne_menshe_360(_)
poka_ne_menshe_360(v) == IF v >= FULL_TURN THEN poka_ne_menshe_360(v - FULL_TURN) ELSE v

\* Faulty variant, for comparison: the wind direction is clamped into 0..360.
normalizovat_znachenie_clamping(znachenie, parametr, db_param) ==
    IF parametr = "temperature_2m" THEN znachenie
    ELSE IF parametr = "wind_direction_10m"
         THEN (IF znachenie < 0 THEN 0
               ELSE IF znachenie > FULL_TURN THEN FULL_TURN ELSE znachenie)
    ELSE IF znachenie < 0 THEN 0
    ELSE znachenie

\* Faulty variant, for comparison: the temperature is treated like the rest.
normalizovat_znachenie_no_exemption(znachenie, parametr, db_param) ==
    IF parametr = "wind_direction_10m"
    THEN poka_ne_menshe_360(poka_otritsatelno(znachenie))
    ELSE IF znachenie < 0 THEN 0
    ELSE znachenie

normalizovat_znachenie(znachenie, parametr, db_param) ==
    IF parametr = "temperature_2m" THEN znachenie
    ELSE IF parametr = "wind_direction_10m"
         THEN poka_ne_menshe_360(poka_otritsatelno(znachenie))
    ELSE IF znachenie < 0 THEN 0
    ELSE znachenie

NormalizerCalled ==
    \E v \in (-MaxAbs)..MaxAbs, p \in DOMAIN PARAMETER_MAPPING :
        fn = FnCall("normalizovat_znachenie", <<v, p, PARAMETER_MAPPING[p]>>)

Normalize ==
    /\ fn.op = "normalizovat_znachenie"
    /\ fn.pc = "call"
    /\ fn' = [fn EXCEPT !.pc = "done",
                        !.res = normalizovat_znachenie(fn.args[1], fn.args[2], fn.args[3])]
    /\ UNCHANGED <<db, loc_log, save, orch, par>>

(***************************************************************************)
(* выполнить_запрос(url, params, headers, method, timeout).                *)
(* The environment decides what the request does: it raises one of the     *)
(* requests exceptions, or answers with a status code and a body that is   *)
(* a JSON document or not. An undecodable body makes response.json() raise *)
(* requests' JSONDecodeError, the standard library's, or simplejson's (a   *)
(* plain ValueError), depending on the installed requests.                 *)
(***************************************************************************)
\* The classes an exception is an instance of.
Bases(exc) ==
    CASE exc = "Timeout" -> {"Timeout", "RequestException", "Exception"}
      [] exc = "ConnectionError" -> {"ConnectionError", "RequestException", "Exception"}
      [] exc = "TooManyRedirects" -> {"TooManyRedirects", "RequestException", "Exception"}
      [] exc = "requests.JSONDecodeError" ->
            {"requests.JSONDecodeError", "RequestException", "json.JSONDecodeError",
             "ValueError", "Exception"}
      [] exc = "json.JSONDecodeError" -> {"json.JSONDecodeError", "ValueError", "Exception"}
      [] OTHER -> {exc, "Exception"}

\* Faulty variant, for comparison: the handlers stop at the requests and
\* JSON classes, without the final except Exception.
zapros_handles_without_catch_all(exc) ==
    Bases(exc) \cap {"Timeout", "ConnectionError", "RequestException",
                     "json.JSONDecodeError"} # {}

\* Lines 72-86: the except clauses of the function.
zapros_handles(exc) ==
    Bases(exc) \cap {"Timeout", "ConnectionError", "RequestException",
                     "json.JSONDecodeError", "Exception"} # {}

Payload(k) == <<"json", k>>
Undecodable == <<"text", 0>>

ZaprosResult(ret, raised) == [ret |-> ret, raised |-> raised]

\* An exception inside the try: None when a clause takes it.
zapros_isklyuchenie(exc) ==
    IF zapros_handles(exc) THEN ZaprosResult(None, "none") ELSE ZaprosResult(None, exc)

\* Lines 58-70: the status code, then response.json().
zapros_otvet(response, json_error) ==
    IF response.status_code = 200
    THEN (IF response.body = Undecodable THEN zapros_isklyuchenie(json_error)
          ELSE ZaprosResult(response.body, "none"))
    ELSE ZaprosResult(None, "none")

\* method.upper(), lines 39 and 46, of the string Str(s); None has no upper.
Str(s) == <<"str", s>>
upper(method) ==
    IF method[2] = "get" THEN "GET" ELSE IF method[2] = "post" THEN "POST" ELSE method[2]

vypolnit_zapros(method, outcome) ==
    IF method = None THEN zapros_isklyuchenie("AttributeError")
    ELSE IF upper(method) \notin {"GET", "POST"} THEN ZaprosResult(None, "none")
    ELSE IF outcome.kind = "raise" THEN zapros_isklyuchenie(outcome.exc)
    ELSE zapros_otvet(outcome.response, outcome.json_error)

Methods == {Str("GET"), Str("get"), Str("POST"), Str("post"), Str("PUT"), None}
StatusCodes == {200, 201, 204, 301, 400, 404, 500, 503}
Bodies == {Payload(1), Payload(2), None, Undecodable}
Responses == [status_code : StatusCodes, body : Bodies]
RequestOutcomes ==
    {[kind |-> "raise", exc |-> x, response |-> None, json_error |-> "none"] :
        x \in {"Timeout", "ConnectionError", "TooManyRedirects"}}
    \cup {[kind |-> "response", exc |-> "none", response |-> r, json_error |-> j] :
            r \in Responses,
            j \in {"requests.JSONDecodeError", "json.JSONDecodeError", "ValueError"}}

RequestCalled ==
    \E m \in Methods, o \in RequestOutcomes : fn = FnCall("vypolnit_zapros", <<m, o>>)

Request ==
    /\ fn.op = "vypolnit_zapros"
    /\ fn.pc = "call"
    /\ fn' = [fn EXCEPT !.pc = "done", !.res = vypolnit_zapros(fn.args[1], fn.args[2])]
    /\ UNCHANGED <<db, loc_log, save, orch, par>>

(***************************************************************************)
(* The response parsers. A JSON object is a function on its keys. The      *)
(* records of the air-quality parser carry the value in thousandths of the *)
(* target unit (the conversion of CO divides by 1000.0).                   *)
(***************************************************************************)
AIR_PARAMETER_MAPPING ==
    [pm10 |-> "PM10", pm2_5 |-> "PM2.5", carbon_monoxide |-> "CO",
     nitrogen_dioxide |-> "NO2", sulphur_dioxide |-> "SO2", ozone |-> "O3"]

\* The order in which PARAMETER_MAPPING.items() yields the keys.
AirKeys == <<"pm10", "pm2_5", "carbon_monoxide", "nitrogen_dioxide", "sulphur_dioxide", "ozone">>
WeatherKeys == <<"temperature_2m", "relative_humidity_2m", "wind_speed_10m",
                 "wind_direction_10m", "precipitation", "surface_pressure">>

AIR_UNIT_MAPPING ==
    [pm10 |-> "mkg/m3", pm2_5 |-> "mkg/m3", carbon_monoxide |-> "mg/m3",
     nitrogen_dioxide |-> "mkg/m3", sulphur_dioxide |-> "mkg/m3", ozone |-> "mkg/m3"]

UNIT_MAPPING ==
    [temperature_2m |-> "C", relative_humidity_2m |-> "%", wind_speed_10m |-> "m/s",
     wind_direction_10m |-> "deg", precipitation |-> "mm", surface_pressure |-> "hPa"]

MILLI == 1000

\* конвертировать_единицы(значение, параметр), in thousandths of the unit:
\* CO is divided by 1000.0, the others are returned as given.
konvertirovat_edinitsy(znachenie, parametr) ==
    IF parametr = "carbon_monoxide" THEN znachenie ELSE MILLI * znachenie

\* Air-quality parser, lines 126-156: the record of one parameter, or none.
air_izmerenie(hourly_data, api_param, shirota, dolgota) ==
    IF api_param \notin DOMAIN hourly_data THEN <<>>
    ELSE LET p == poluchit_poslednee_znachenie(hourly_data[api_param], hourly_data["time"])
         IN  IF p.val = None \/ p.ts = None THEN <<>>
             ELSE << [parameter_name |-> AIR_PARAMETER_MAPPING[api_param],
                      category |-> "kachestvo_vozduha",
                      value |-> konvertirovat_edinitsy(p.val[2], api_param),
                      unit |-> AIR_UNIT_MAPPING[api_param],
                      latitude |-> shirota,
                      longitude |-> dolgota,
                      timestamp |-> p.ts,
                      external_id |-> "open_meteo_moscow"] >>

RECURSIVE air_tsikl(_, _, _, _)
air_tsikl(hourly_data, k, shirota, dolgota) ==
    IF k > Len(AirKeys) THEN <<>>
    ELSE air_izmerenie(hourly_data, AirKeys[k], shirota, dolgota)
         \o air_tsikl(hourly_data, k + 1, shirota, dolgota)

\* распарсить_ответ(ответ_json, широта, долгота)
rasparsit_otvet(otvet_json, shirota, dolgota) ==
    IF "hourly" \notin DOMAIN otvet_json THEN <<>>
    ELSE IF "time" \notin DOMAIN otvet_json["hourly"] THEN <<>>
    ELSE air_tsikl(otvet_json["hourly"], 1, shirota, dolgota)

\* Weather parser, lines 143-174: the record of one parameter, or none.
pogoda_izmerenie(hourly_data, api_param, shirota, dolgota, nazvanie_tochki) ==
    IF api_param \notin DOMAIN hourly_data THEN <<>>
    ELSE LET p == poluchit_poslednee_znachenie(hourly_data[api_param], hourly_data["time"])
         IN  IF p.val = None \/ p.ts = None THEN <<>>
             ELSE << [parameter_name |-> PARAMETER_MAPPING[api_param],
                      category |-> "pogoda",
                      value |-> normalizovat_znachenie(p.val[2], api_param,
                                                       PARAMETER_MAPPING[api_param]),
                      unit |-> UNIT_MAPPING[api_param],
                      latitude |-> shirota,
                      longitude |-> dolgota,
                      timestamp |-> p.ts,
                      external_id |-> <<"open_meteo_", nazvanie_tochki>>,
                      station_name |-> nazvanie_tochki] >>

RECURSIVE pogoda_tsikl(_, _, _, _, _)
pogoda_tsikl(hourly_data, k, shirota, dolgota, nazvanie_tochki) ==
    IF k > Len(WeatherKeys) THEN <<>>
    ELSE pogoda_izmerenie(hourly_data, WeatherKeys[k], shirota, dolgota, nazvanie_tochki)
         \o pogoda_tsikl(hourly_data, k + 1, shirota, dolgota, nazvanie_tochki)

\* распарсить_погодный_ответ_для_точки(hourly_data, широта, долгота, название_точки)
rasparsit_pogodnyy_otvet(hourly_data, shirota, dolgota, nazvanie_tochki) ==
    IF "time" \notin DOMAIN hourly_data THEN <<>>
    ELSE pogoda_tsikl(hourly_data, 1, shirota, dolgota, nazvanie_tochki)

\* Payloads: a label array of two hours and, for some of the keys, a series
\* of two values; a key may be absent.
PayloadTimes == {<<Metka(1, ""), Metka(2, "")>>, <<Metka(1, ""), BadMetka>>, <<>>}
PayloadValues == {None, Num(-15), Num(370)}
PayloadSeries == [1..2 -> PayloadValues]

AirParserCalled ==
    \/ fn = FnCall("rasparsit_otvet", <<EmptyDict, 400, 0>>)
    \/ fn = FnCall("rasparsit_otvet", <<("hourly" :> EmptyDict), 400, 0>>)
    \/ \E ks \in SUBSET {"pm10", "carbon_monoxide"}, t \in PayloadTimes :
          \E series \in [ks -> PayloadSeries] :
             fn = FnCall("rasparsit_otvet", <<("hourly" :> (("time" :> t) @@ series)), 400, 0>>)

WeatherParserCalled ==
    \/ fn = FnCall("rasparsit_pogodnyy_otvet", <<EmptyDict, 600, 1600, "Tushino">>)
    \/ \E ks \in SUBSET {"temperature_2m", "wind_direction_10m", "precipitation"},
          t \in PayloadTimes :
          \E series \in [ks -> PayloadSeries] :
             fn = FnCall("rasparsit_pogodnyy_otvet",
                         <<("time" :> t) @@ series, 600, 1600, "Tushino">>)

ParseAir ==
    /\ fn.op = "rasparsit_otvet"
    /\ fn.pc = "call"
    /\ fn' = [fn EXCEPT !.pc = "done",
                        !.res = rasparsit_otvet(fn.args[1], fn.args[2], fn.args[3])]
    /\ UNCHANGED <<db, loc_log, save, orch, par>>

ParseWeather ==
    /\ fn.op = "rasparsit_pogodnyy_otvet"
    /\ fn.pc = "call"
    /\ fn' = [fn EXCEPT !.pc = "done",
                        !.res = rasparsit_pogodnyy_otvet(fn.args[1], fn.args[2], fn.args[3],
                                                         fn.args[4])]
    /\ UNCHANGED <<db, loc_log, save, orch, par>>

(***************************************************************************)
(* The multi-point weather response.                                       *)
(*   валидировать_координаты  -> validirovat_koordinaty                    *)
(*   распарсить_мульти_ответ  -> rasparsit_multi_otvet                     *)
(* The coordinates of the configured grid points are in whole degrees.     *)
(***************************************************************************)
MaxPoints == 3

\* base_fetcher.валидировать_координаты
validirovat_koordinaty(latitude, longitude) ==
    IF ~(-90 <= latitude /\ latitude <= 90) THEN FALSE
    ELSE IF ~(-180 <= longitude /\ longitude <= 180) THEN FALSE
    ELSE TRUE

\* собрать_погодные_данные, lines 254-259: the points with valid
\* coordinates, in configuration order.
validnye_tochki(grid_points) ==
    SelectSeq(grid_points, LAMBDA tochka : validirovat_koordinaty(tochka.lat, tochka.lon))

\* Lines 196-208: the records of response element idx, given to point idx.
multi_izmereniya_tochki(otvet_tochki, tochka) ==
    IF "hourly" \notin DOMAIN otvet_tochki THEN <<>>
    ELSE rasparsit_pogodnyy_otvet(otvet_tochki["hourly"], tochka.lat, tochka.lon, tochka.name)

\* Faulty variant, for comparison: an element without 'hourly' does not consume
\* its point, so the later elements are given the points before theirs.
RECURSIVE multi_tsikl_shifting(_, _, _, _)
multi_tsikl_shifting(otvet_json, grid_points, idx, used) ==
    IF idx > Len(otvet_json) \/ used >= Len(grid_points) THEN <<>>
    ELSE IF "hourly" \notin DOMAIN otvet_json[idx]
         THEN multi_tsikl_shifting(otvet_json, grid_points, idx + 1, used)
    ELSE multi_izmereniya_tochki(otvet_json[idx], grid_points[used + 1])
         \o multi_tsikl_shifting(otvet_json, grid_points, idx + 1, used + 1)

rasparsit_multi_otvet_shifting(otvet_json, grid_points) ==
    multi_tsikl_shifting(otvet_json, grid_points, 1, 0)

\* Line 195: zip(ответ_json, grid_points) stops at the shorter of the two.
RECURSIVE multi_tsikl(_, _, _)
multi_tsikl(otvet_json, grid_points, idx) ==
    IF idx > Len(otvet_json) \/ idx > Len(grid_points) THEN <<>>
    ELSE multi_izmereniya_tochki(otvet_json[idx], grid_points[idx])
         \o multi_tsikl(otvet_json, grid_points, idx + 1)

rasparsit_multi_otvet(otvet_json, grid_points) == multi_tsikl(otvet_json, grid_points, 1)

\* Configured grid points: two valid ones and one whose latitude is out of
\* range.
Tochka(lat, lon, name) == [lat |-> lat, lon |-> lon, name |-> name]
GridPointSet == {Tochka(55, 37, "Himki"), Tochka(56, 38, "Tushino"), Tochka(95, 37, "Nowhere")}

\* The response element at position i: no 'hourly', an 'hourly' without
\* data, or an 'hourly' whose series (temperature, or precipitation and
\* temperature) end with the value i.
ElementAt(i) ==
    {EmptyDict,
     ("hourly" :> ("time" :> <<Metka(1, "")>>)),
     ("hourly" :> (("time" :> <<Metka(1, "")>>) @@ ("temperature_2m" :> <<Num(i)>>))),
     ("hourly" :> (("time" :> <<Metka(1, "")>>) @@ ("precipitation" :> <<Num(i)>>)
                   @@ ("temperature_2m" :> <<Num(i)>>)))}

RECURSIVE ElementsLen(_)
ElementsLen(k) ==
    IF k = 0 THEN {<<>>} ELSE {Append(r, x) : r \in ElementsLen(k - 1), x \in ElementAt(k)}

\* The parse stage of собрать_погодные_данные for a list response: the
\* configuration, and the response to the request built from its valid
\* points.
MultiParserCalled ==
    \E k \in 0..MaxPoints, n \in 0..MaxPoints :
       \E otvet \in ElementsLen(k), grid_points \in [1..n -> GridPointSet] :
          fn = FnCall("rasparsit_multi_otvet", <<otvet, grid_points>>)

ParseMulti ==
    /\ fn.op = "rasparsit_multi_otvet"
    /\ fn.pc = "call"
    /\ fn' = [fn EXCEPT !.pc = "done",
                        !.res = rasparsit_multi_otvet(fn.args[1], validnye_tochki(fn.args[2]))]
    /\ UNCHANGED <<db, loc_log, save, orch, par>>

(***************************************************************************)
(* run_all.py: вывести_статистику and the exit code of main.               *)
(***************************************************************************)
\* Lines 69-80: the totals over результаты.items().
RECURSIVE itogi(_, _)
itogi(rezultaty, istochniki) ==
    IF istochniki = <<>> THEN <<0, 0, 0>>
    ELSE LET r == rezultaty[Head(istochniki)]
             t == itogi(rezultaty, Tail(istochniki))
         IN  <<t[1] + r.polucheno, t[2] + r.sohraneno, t[3] + Len(r.oshibki)>>

vyvesti_statistiku(rezultaty) ==
    itogi(rezultaty, SelectSeq(Fetchers, LAMBDA f : f \in DOMAIN rezultaty))

\* Faulty variant, for comparison: 'nothing saved' is tested before the errors.
kod_vozvrata_saved_first(itog) ==
    IF itog[2] = 0 THEN 2
    ELSE IF itog[3] > 0 THEN 1
    ELSE 0

\* Lines 146-155.
kod_vozvrata(itog) ==
    IF itog[3] > 0 THEN 1
    ELSE IF itog[2] = 0 THEN 2
    ELSE 0

\* Lines 129-159: vyzov is what запустить_все_сборщики, run inside the
\* application context, ended with.
main(vyzov) ==
    IF vyzov.raised # "none" THEN 3
    ELSE kod_vozvrata(vyvesti_statistiku(vyzov.rezultaty))

\* The result mappings of one fetcher: up to MaxBatch records received, no
\* more saved than received, up to MaxBatch messages.
Soobshcheniya(n) == [k \in 1..n |-> Oshibka(k, "soobshchenie", <<>>)]
RezultatSet ==
    {Rezultat(p, s, Soobshcheniya(n)) : p \in 0..MaxBatch, s \in 0..MaxBatch, n \in 0..MaxBatch}

MainCalled ==
    \/ fn = FnCall("main", <<[raised |-> "RuntimeError", rezultaty |-> EmptyDict]>>)
    \/ \E r1 \in RezultatSet, r2 \in RezultatSet :
          /\ r1.sohraneno <= r1.polucheno
          /\ r2.sohraneno <= r2.polucheno
          /\ fn = FnCall("main", <<[raised |-> "none",
                                    rezultaty |-> (Fetchers[1] :> r1) @@ (Fetchers[2] :> r2)]>>)

Main ==
    /\ fn.op = "main"
    /\ fn.pc = "call"
    /\ fn' = [fn EXCEPT !.pc = "done", !.res = main(fn.args[1])]
    /\ UNCHANGED <<db, loc_log, save, orch, par>>

(***************************************************************************)
(* The two fetchers up to their call of сохранить_измерения.               *)
(*   собрать_данные_о_качестве_воздуха -> sobrat_dannye_o_kachestve_vozduha*)
(*   собрать_погодные_данные           -> sobrat_pogodnye_dannye           *)
(* otvet is what выполнить_запрос returned: None, a JSON object or a JSON  *)
(* array; the 'hourly' member of an object is an object or null, that of   *)
(* an array element is an object. The result lists the outbound calls made *)
(* and is the mapping returned early, the list handed to                   *)
(* сохранить_измерения, or the exception that leaves the fetcher.          *)
(***************************************************************************)
Dict(d) == <<"dict", d>>
List(l) == <<"list", l>>

\* Python's 'not ответ': None, {} and [] are falsy.
not_otvet(otvet) == otvet = None \/ DOMAIN otvet[2] = {}

Vozvrat(zaprosy, rezultat) == [pc |-> "return", zaprosy |-> zaprosy, ret |-> rezultat]
Sohranenie(zaprosy, spisok_izmereniy) ==
    [pc |-> "sohranit_izmereniya", zaprosy |-> zaprosy, batch |-> spisok_izmereniy]
Isklyuchenie(zaprosy, exc) == [pc |-> "raise", zaprosy |-> zaprosy, exc |-> exc]

\* A JSON null inside an object. 'time' not in None (air parser line 119,
\* weather parser line 135) raises TypeError.
Null == ("null" :> TRUE)
hourly_is_null(otvet_json) == "hourly" \in DOMAIN otvet_json /\ otvet_json["hourly"] = Null

\* Faulty variant, for comparison: the list goes to сохранить_измерения even when
\* it is empty.
posle_parsinga_unchecked(zaprosy, spisok_izmereniy) == Sohranenie(zaprosy, spisok_izmereniy)

\* Air fetcher lines 228-244, weather fetcher lines 318-339.
posle_parsinga(zaprosy, spisok_izmereniy) ==
    IF spisok_izmereniy = <<>> THEN Vozvrat(zaprosy, rezultat_oshibki("ne_udalos_rasparsit"))
    ELSE Sohranenie(zaprosy, spisok_izmereniy)

\* Air fetcher lines 210-226.
air_posle_zaprosa(zaprosy, otvet, shirota, dolgota) ==
    IF not_otvet(otvet) THEN Vozvrat(zaprosy, rezultat_oshibki("net_otveta"))
    ELSE IF hourly_is_null(otvet[2]) THEN Isklyuchenie(zaprosy, "TypeError")
    ELSE posle_parsinga(zaprosy, rasparsit_otvet(otvet[2], shirota, dolgota))

sobrat_dannye_o_kachestve_vozduha(konfig, otvet) ==
    IF ~validirovat_koordinaty(konfig.latitude, konfig.longitude)
    THEN Vozvrat(<<>>, rezultat_oshibki("nevalidnye_koordinaty"))
    ELSE air_posle_zaprosa(<<[latitude |-> konfig.latitude, longitude |-> konfig.longitude]>>,
                           otvet, konfig.latitude, konfig.longitude)

\* Weather fetcher lines 303-316.
pogoda_parsing(otvet, validnye) ==
    IF otvet[1] = "list" THEN rasparsit_multi_otvet(otvet[2], validnye)
    ELSE IF "hourly" \in DOMAIN otvet[2]
         THEN rasparsit_pogodnyy_otvet(otvet[2]["hourly"], validnye[1].lat, validnye[1].lon,
                                       validnye[1].name)
    ELSE <<>>

\* Weather fetcher lines 287-316.
pogoda_posle_zaprosa(zaprosy, otvet, validnye) ==
    IF not_otvet(otvet) THEN Vozvrat(zaprosy, rezultat_oshibki("net_otveta"))
    ELSE IF otvet[1] = "dict" /\ hourly_is_null(otvet[2])
         THEN Isklyuchenie(zaprosy, "TypeError")
    ELSE posle_parsinga(zaprosy, pogoda_parsing(otvet, validnye))

\* Faulty variant, for comparison: one outbound call for every valid point.
pogoda_zaprosy_per_point(validnye) ==
    [i \in 1..Len(validnye) |->
        [latitude |-> <<validnye[i].lat>>, longitude |-> <<validnye[i].lon>>]]

\* Lines 272-291: one call, with the latitudes and the longitudes of the
\* valid points joined in order.
pogoda_zaprosy(validnye) ==
    << [latitude |-> [i \in 1..Len(validnye) |-> validnye[i].lat],
        longitude |-> [i \in 1..Len(validnye) |-> validnye[i].lon]] >>

sobrat_pogodnye_dannye(grid_points, otvet) ==
    IF grid_points = <<>> THEN Vozvrat(<<>>, rezultat_oshibki("ne_zadana_setka"))
    ELSE IF validnye_tochki(grid_points) = <<>>
         THEN Vozvrat(<<>>, rezultat_oshibki("net_validnyh_tochek"))
    ELSE pogoda_posle_zaprosa(pogoda_zaprosy(validnye_tochki(grid_points)), otvet,
                              validnye_tochki(grid_points))

\* The air-quality configuration (Moscow, or a latitude out of range) and the
\* answers to its request.
AirConfigs == {[latitude |-> 55, longitude |-> 37], [latitude |-> 95, longitude |-> 37]}
AirOtvety ==
    {None, Dict(EmptyDict), Dict("reason" :> "x"), Dict("hourly" :> EmptyDict),
     Dict("hourly" :> Null),
     Dict("hourly" :> ("time" :> <<Metka(1, "")>>)),
     Dict("hourly" :> (("time" :> <<Metka(1, ""), Metka(2, "")>>)
                       @@ ("pm10" :> <<Num(12), None>>))),
     Dict("hourly" :> (("time" :> <<Metka(1, ""), Metka(2, "")>>)
                       @@ ("pm10" :> <<Num(12), None>>)
                       @@ ("carbon_monoxide" :> <<None, Num(370)>>)))}

AirFetcherCalled ==
    \E konfig \in AirConfigs, otvet \in AirOtvety :
       fn = FnCall("sobrat_dannye_o_kachestve_vozduha", <<konfig, otvet>>)

FetchAir ==
    /\ fn.op = "sobrat_dannye_o_kachestve_vozduha"
    /\ fn.pc = "call"
    /\ fn' = [fn EXCEPT !.pc = "done",
                        !.res = sobrat_dannye_o_kachestve_vozduha(fn.args[1], fn.args[2])]
    /\ UNCHANGED <<db, loc_log, save, orch, par>>

\* The weather configuration and the answers to its request: none, an array
\* of elements, or a single object.
WeatherFetcherCalled ==
    \E n \in 0..MaxPoints :
       \E grid_points \in [1..n -> GridPointSet] :
          \/ \E otvet \in {None, Dict("hourly" :> Null)} \cup {Dict(x) : x \in ElementAt(1)} :
                fn = FnCall("sobrat_pogodnye_dannye", <<grid_points, otvet>>)
          \/ \E k \in 0..MaxPoints :
                \E elems \in ElementsLen(k) :
                   fn = FnCall("sobrat_pogodnye_dannye", <<grid_points, List(elems)>>)

FetchWeather ==
    /\ fn.op = "sobrat_pogodnye_dannye"
    /\ fn.pc = "call"
    /\ fn' = [fn EXCEPT !.pc = "done",
                        !.res = sobrat_pogodnye_dannye(fn.args[1], fn.args[2])]
    /\ UNCHANGED <<db, loc_log, save, orch, par>>

(***************************************************************************)
(* загрузить_историю_погоды of utils/load_historical_data.py: the loop     *)
(* over the points, as the journal of its outbound calls and its pauses.   *)
(* otvety[i] is what выполнить_запрос returns for point i. The sampling of *)
(* the hourly series into measurements is left out: obrabotano lists the   *)
(* points whose series were processed.                                     *)
(***************************************************************************)
\* time.sleep(0.5), in milliseconds.
DELAY_MS == 500

Zapros(idx, tochka) == [ev |-> "zapros", idx |-> idx, latitude |-> tochka.lat,
                        longitude |-> tochka.lon]
Sleep == [ev |-> "sleep", ms |-> DELAY_MS]

\* Lines 100-170, one point: "processed", "skipped" (one of the two
\* continue statements) or "caught" (the except clause of line 168).
hist_iskhod(otvet) ==
    IF not_otvet(otvet) THEN "skipped"
    ELSE IF "hourly" \notin DOMAIN otvet[2] THEN "skipped"
    ELSE IF otvet[2]["hourly"] = Null THEN "caught"
    ELSE IF "time" \notin DOMAIN otvet[2]["hourly"] THEN "skipped"
    ELSE IF otvet[2]["hourly"]["time"] = <<>> THEN "skipped"
    ELSE "processed"

\* Line 166: the pause is the last statement of the try block, after the
\* processing of the series.
hist_pauza(iskhod) == IF iskhod = "processed" THEN <<Sleep>> ELSE <<>>

RECURSIVE hist_tsikl(_, _, _)
hist_tsikl(tochki, otvety, idx) ==
    IF idx > Len(tochki) THEN <<>>
    ELSE <<Zapros(idx, tochki[idx])>> \o hist_pauza(hist_iskhod(otvety[idx]))
         \o hist_tsikl(tochki, otvety, idx + 1)

zagruzit_istoriyu_pogody(tochki, otvety) ==
    [zhurnal |-> hist_tsikl(tochki, otvety, 1),
     obrabotano |-> SelectSeq([i \in 1..Len(tochki) |-> i],
                              LAMBDA i : hist_iskhod(otvety[i]) = "processed")]

\* The answers of the archive endpoint to one call.
HistOtvety ==
    {None, Dict("reason" :> "x"), Dict("hourly" :> Null), Dict("hourly" :> EmptyDict),
     Dict("hourly" :> (("time" :> <<Metka(1, "")>>) @@ ("temperature_2m" :> <<Num(1)>>)))}

HistoryLoaderCalled ==
    \E n \in 0..MaxPoints :
       \E tochki \in [1..n -> GridPointSet], otvety \in [1..n -> HistOtvety] :
          fn = FnCall("zagruzit_istoriyu_pogody", <<tochki, otvety>>)

LoadHistory ==
    /\ fn.op = "zagruzit_istoriyu_pogody"
    /\ fn.pc = "call"
    /\ fn' = [fn EXCEPT !.pc = "done",
                        !.res = zagruzit_istoriyu_pogody(fn.args[1], fn.args[2])]
    /\ UNCHANGED <<db, loc_log, save, orch, par>>

(***************************************************************************)
(* SpecFn: one call of a pure function on any input of its bounded domain. *)
(***************************************************************************)
FnCalled ==
    \/ ExtractorCalled
    \/ NormalizerCalled
    \/ RequestCalled
    \/ AirParserCalled
    \/ WeatherParserCalled
    \/ MultiParserCalled
    \/ MainCalled
    \/ AirFetcherCalled
    \/ WeatherFetcherCalled
    \/ HistoryLoaderCalled

InitFn ==
    /\ db = InitDb
    /\ loc_log = <<>>
    /\ save = SaveIdle
    /\ orch = OrchIdle
    /\ FnCalled
    /\ par = ParIdle

NextFn == Extract \/ Normalize \/ Request \/ ParseAir \/ ParseWeather \/ ParseMulti
              \/ Main \/ FetchAir \/ FetchWeather \/ LoadHistory

SpecFn == InitFn /\ [][NextFn]_vars

(***************************************************************************)
(* SpecRun: one run of a fetcher from its configuration to its result: the *)
(* fetcher up to сохранить_измерения, сохранить_измерения step by step on  *)
(* the list it was handed, and the mapping the fetcher returns.            *)
(***************************************************************************)
\* The parsers emit numbers; сохранить_измерения reads them with float().
spisok_izmereniy(batch) == [k \in 1..Len(batch) |-> [batch[k] EXCEPT !.value = Num(@)]]

FetcherSource(op) ==
    IF op = "sobrat_dannye_o_kachestve_vozduha" THEN SourceNames[1] ELSE SourceNames[2]

\* Air fetcher line 240, weather fetcher line 335: the call of
\* сохранить_измерения with the parsed list.
Persist ==
    /\ fn.op \in {"sobrat_dannye_o_kachestve_vozduha", "sobrat_pogodnye_dannye"}
    /\ fn.pc = "done"
    /\ fn.res.pc = "sohranit_izmereniya"
    /\ save = SaveIdle
    /\ save' = SaveFrame("entry", spisok_izmereniy(fn.res.batch), FetcherSource(fn.op))
    /\ fn' = [fn EXCEPT !.pc = "saving"]
    /\ UNCHANGED <<db, loc_log, orch, par>>

\* Air fetcher lines 254-258, weather fetcher lines 353-357: the mapping
\* returned after сохранить_измерения returned; its exception leaves the
\* fetcher.
FetcherReturn ==
    /\ fn.pc = "saving"
    /\ save.pc \in {"returned", "raised"}
    /\ fn' = [fn EXCEPT
                !.pc = "returned",
                !.res = IF save.pc = "raised" THEN Isklyuchenie(fn.res.zaprosy, save.exc)
                        ELSE Vozvrat(fn.res.zaprosy,
                                     Rezultat(Len(save.batch), save.sohraneno, save.oshibki))]
    /\ UNCHANGED <<db, loc_log, save, orch, par>>

InitRun ==
    /\ db = InitDb
    /\ loc_log = <<>>
    /\ save = SaveIdle
    /\ orch = OrchIdle
    /\ AirFetcherCalled \/ WeatherFetcherCalled
    /\ par = ParIdle

NextRun ==
    \/ FetchAir
    \/ FetchWeather
    \/ Persist
    \/ SaveBegin
    \/ SaveRecord
    \/ SaveReturn
    \/ FetcherReturn

SpecRun == InitRun /\ [][NextRun]_vars

(***************************************************************************)
(* SpecCtx: one application context, as in run_all.main: statements go     *)
(* through execute_query, the context ends (with or without an exception)  *)
(* and Flask calls teardown_db -> close_db; close_db may be called again.  *)
(* The frame keeps the connections psycopg.connect has returned ("open" or *)
(* "closed"), for every execute_query the connection it used (0 when the   *)
(* connect failed) and the exception it raised, and the journal of         *)
(* close_db.                                                               *)
(***************************************************************************)
CtxFrame(pc) == [op |-> "app_context", pc |-> pc, conns |-> <<>>, used |-> <<>>,
                 zhurnal |-> <<>>]

\* The connections after get_db inside execute_query: one more when 'db' was
\* not in g and the connect succeeded.
posle_get_db(conns, d, g) ==
    IF d.conn = "none" /\ g.ok THEN Append(conns, "open") ELSE conns

\* Faulty variant, for comparison: db.close() follows the commit or rollback
\* inside the try, so a failure skips it.
close_db_in_try(d, conns, exception, fate) ==
    IF d.conn = "none" THEN [db |-> d, conns |-> conns, zhurnal |-> <<>>]
    ELSE [db |-> [d EXCEPT !.conn = "none", !.txn = "idle"],
          conns |-> IF fate = "ok" THEN [conns EXCEPT ![Len(conns)] = "closed"] ELSE conns,
          zhurnal |-> << [ev |-> IF exception = None THEN "commit" ELSE "rollback",
                          ok |-> fate = "ok"] >>
                      \o (IF fate = "ok" THEN << [ev |-> "close", ok |-> TRUE] >> ELSE <<>>)]

\* close_db(exception): g.pop('db', None); commit or rollback, a
\* psycopg.Error of which is logged; db.close() in the finally clause.
close_db(d, conns, exception, fate) ==
    IF d.conn = "none" THEN [db |-> d, conns |-> conns, zhurnal |-> <<>>]
    ELSE [db |-> [d EXCEPT !.conn = "none", !.txn = "idle"],
          conns |-> [conns EXCEPT ![Len(conns)] = "closed"],
          zhurnal |-> << [ev |-> IF exception = None THEN "commit" ELSE "rollback",
                          ok |-> fate = "ok"],
                         [ev |-> "close", ok |-> TRUE] >>]

\* One execute_query of the run.
CtxQuery ==
    /\ fn.op = "app_context"
    /\ fn.pc = "run"
    /\ Len(fn.used) < MaxCalls
    /\ \E f \in Faults(db) :
          LET g == get_db(db, f)
              conns == posle_get_db(fn.conns, db, g)
          IN  /\ db' = execute_query(db, f).db
              /\ fn' = [fn EXCEPT !.conns = conns,
                                  !.used = Append(@, [conn |-> IF g.ok THEN Len(conns) ELSE 0,
                                                      exc |-> execute_query(db, f).exc])]
    /\ UNCHANGED <<loc_log, save, orch, par>>

\* The with block of run_all.main (lines 131-132) is left, normally or by an
\* exception: app.teardown_appcontext calls close_db(exception).
CtxExit ==
    /\ fn.op = "app_context"
    /\ fn.pc = "run"
    /\ \E exception \in {None, Str("RuntimeError")}, fate \in {"ok", "fail"} :
          LET r == close_db(db, fn.conns, exception, fate) IN
          /\ db' = r.db
          /\ fn' = [fn EXCEPT !.pc = "ended", !.conns = r.conns, !.zhurnal = @ \o r.zhurnal]
    /\ UNCHANGED <<loc_log, save, orch, par>>

\* close_db once more, after the context has ended.
CtxCloseAgain ==
    /\ fn.op = "app_context"
    /\ fn.pc = "ended"
    /\ \E exception \in {None, Str("RuntimeError")}, fate \in {"ok", "fail"} :
          LET r == close_db(db, fn.conns, exception, fate) IN
          /\ db' = r.db
          /\ fn' = [fn EXCEPT !.pc = "closed_again", !.conns = r.conns,
                              !.zhurnal = @ \o r.zhurnal]
    /\ UNCHANGED <<loc_log, save, orch, par>>

InitCtx ==
    /\ db = InitDb
    /\ loc_log = <<>>
    /\ save = SaveIdle
    /\ orch = OrchIdle
    /\ fn = CtxFrame("run")
    /\ par = ParIdle

NextCtx == CtxQuery \/ CtxExit \/ CtxCloseAgain

SpecCtx == InitCtx /\ [][NextCtx]_vars

(***************************************************************************)
(* Vocabulary of the claims about the extractor.                           *)
(***************************************************************************)
ExtractorDone == fn.op = "poluchit_poslednee_znachenie" /\ fn.pc = "done"
NonNull(ryad) == {i \in 1..Len(ryad) : ryad[i] # None}
Highest(S) == CHOOSE i \in S : \A j \in S : j <= i
\* The label is an ISO-8601 string, a trailing Z allowed.
Parses(m) == m # None /\ m[3] \in {"", "Z"}
\* The datetime dt is the instant the label m names.
Denotes(dt, m) ==
    /\ Parses(m)
    /\ dt # None
    /\ dt[2] = m[2]
    /\ dt[3] = (IF m[3] = "Z" THEN "+00:00" ELSE "")
Usable(ryad, metki) == {i \in NonNull(ryad) : Parses(metki[i])}
IsNoData(res) == res.val = None /\ res.ts = None

\* C11 (as stated): for equal-length sequences with a non-null value the
\* extractor returns the value and timestamp at the highest index whose
\* value is non-null; for no non-null value, different lengths or an empty
\* sequence it returns (None, None); it never raises.
C11_LatestNonNull ==
    ExtractorDone =>
        LET ryad == fn.args[1]
            metki == fn.args[2]
        IN  /\ fn.res.raised = "none"
            /\ IF Len(ryad) = Len(metki) /\ NonNull(ryad) # {}
               THEN /\ fn.res.val = ryad[Highest(NonNull(ryad))]
                    /\ Denotes(fn.res.ts, metki[Highest(NonNull(ryad))])
               ELSE IsNoData(fn.res)

\* C11 (amended): the pair returned is the one at the highest index whose
\* value is non-null and whose timestamp parses; when there is no such
\* index, or the lengths differ, or a sequence is empty, the result is
\* (None, None); the extractor never raises.
C11_LatestUsable ==
    ExtractorDone =>
        LET ryad == fn.args[1]
            metki == fn.args[2]
        IN  /\ fn.res.raised = "none"
            /\ IF Len(ryad) = Len(metki) /\ Usable(ryad, metki) # {}
               THEN /\ fn.res.val = ryad[Highest(Usable(ryad, metki))]
                    /\ Denotes(fn.res.ts, metki[Highest(Usable(ryad, metki))])
               ELSE IsNoData(fn.res)

\* The latest non-null value is 0 and its label does not parse; an older
\* pair is returned.
C11_Witness ==
    /\ ExtractorDone
    /\ Len(fn.args[1]) = Len(fn.args[2])
    /\ Usable(fn.args[1], fn.args[2]) # {}
    /\ Highest(Usable(fn.args[1], fn.args[2])) < Highest(NonNull(fn.args[1]))
    /\ fn.res.val = Num(0)

(***************************************************************************)
(* Vocabulary of the claims about the normalizer.                          *)
(***************************************************************************)
NormalizerDone == fn.op = "normalizovat_znachenie" /\ fn.pc = "done"
Congruent(a, b, m) == (a - b) % m = 0

C13_ClampedExceptTemperature ==
    NormalizerDone =>
        /\ fn.args[2] \notin {"temperature_2m", "wind_direction_10m"} =>
              /\ fn.res >= 0
              /\ fn.args[1] >= 0 => fn.res = fn.args[1]
              /\ fn.args[1] < 0 => fn.res = 0
        /\ fn.args[2] = "temperature_2m" => fn.res = fn.args[1]

\* A negative temperature comes back unchanged.
C13_Witness ==
    /\ NormalizerDone
    /\ fn.args[2] = "temperature_2m"
    /\ fn.args[1] < 0
    /\ fn.res = fn.args[1]

(***************************************************************************)
(* Vocabulary of the claims about выполнить_запрос.                        *)
(***************************************************************************)
RequestDone == fn.op = "vypolnit_zapros" /\ fn.pc = "done"
Supported(method) == method \in {Str("GET"), Str("get"), Str("POST"), Str("post")}
Successful(outcome) ==
    /\ outcome.kind = "response"
    /\ outcome.response.status_code \in 200..299
    /\ outcome.response.body # Undecodable

\* C14: выполнить_запрос never raises; for a timeout, a connection failure,
\* another request exception, a non-2xx status, an undecodable body or an
\* unsupported method it returns None, and it returns the decoded payload
\* only for a successful response.
C14_RequestNeverRaises ==
    RequestDone =>
        LET method == fn.args[1]
            outcome == fn.args[2]
        IN  /\ fn.res.raised = "none"
            /\ (~Supported(method) \/ ~Successful(outcome)) => fn.res.ret = None
            /\ fn.res.ret # None =>
                  /\ Supported(method)
                  /\ Successful(outcome)
                  /\ fn.res.ret = outcome.response.body

\* A 200 answer whose body is no JSON, with a requests that raises a plain
\* ValueError for it: None is returned.
C14_Witness ==
    /\ RequestDone
    /\ Supported(fn.args[1])
    /\ fn.args[2].kind = "response"
    /\ fn.args[2].response.status_code = 200
    /\ fn.args[2].response.body = Undecodable
    /\ fn.args[2].json_error = "ValueError"
    /\ fn.res = ZaprosResult(None, "none")

(***************************************************************************)
(* Vocabulary of the claims about найти_или_создать_источник.              *)
(***************************************************************************)
RowsNamed(table, name) == {s \in table : s.name = name}
OneRowPerName(table) == \A s1, s2 \in table : s1.name = s2.name => s1 = s2
SrcReturned == {i \in 1..Len(loc_log) : loc_log[i].ok}

\* C15: after any sequence of sequential найти_или_создать_источник calls
\* there is at most one data_sources row per name; a call for an existing
\* name returns that row's id and inserts nothing; a call for a new name
\* inserts exactly one row and returns its id; two calls with the same
\* name return the same id.
C15_OneSourcePerName ==
    /\ OneRowPerName(db.data_sources)
    /\ \A i \in SrcReturned :
          LET c == loc_log[i] IN
          IF RowsNamed(c.before, c.name) # {}
          THEN /\ c.after = c.before
               /\ \A s \in RowsNamed(c.before, c.name) : c.id = s.id
          ELSE /\ c.after = c.before \cup {[id |-> c.id, name |-> c.name]}
               /\ Cardinality(c.after) = Cardinality(c.before) + 1
    /\ \A i, j \in SrcReturned : loc_log[i].name = loc_log[j].name => loc_log[i].id = loc_log[j].id

\* A name is created by one call and found by a later one.
C15_Witness ==
    \E i, j \in SrcReturned :
        /\ i < j
        /\ loc_log[i].name = loc_log[j].name
        /\ RowsNamed(loc_log[i].before, loc_log[i].name) = {}
        /\ loc_log[j].after = loc_log[j].before
        /\ loc_log[i].id = loc_log[j].id
        /\ \E k \in SrcReturned : loc_log[k].name # loc_log[i].name

(***************************************************************************)
(* Vocabulary of the claims about callers running in parallel.             *)
(***************************************************************************)
ParAllClosed == \A c \in Callers : par.callers[c].pc = "closed"
ParSameNewName ==
    /\ par.op = "istochnik"
    /\ \A c1, c2 \in Callers : par.callers[c1].arg = par.callers[c2].arg
    /\ \A c \in Callers : RowsNamed(par.initial, par.callers[c].arg) = {}

\* C16: when two callers run найти_или_создать_источник at the same time
\* for the same name that does not exist yet, then under every interleaving
\* of their lookup and insert steps neither call raises, both return the
\* same source id, and exactly one data_sources row with the name exists
\* afterwards.
C16_ConcurrentSameSource ==
    (ParSameNewName /\ ParAllClosed) =>
        /\ \A c \in Callers : par.callers[c].exc = "none"
        /\ \A c1, c2 \in Callers : par.callers[c1].id = par.callers[c2].id
        /\ \A c \in Callers : Cardinality(RowsNamed(par.committed, par.callers[c].arg)) = 1

\* The rows of a locations table that share a rounded coordinate pair are
\* one row.
OneRowPerRoundedIn(rows) ==
    \A l1, l2 \in rows :
       (sql_round(l1.latitude) = sql_round(l2.latitude)
        /\ sql_round(l1.longitude) = sql_round(l2.longitude)) => l1 = l2

\* C19: in every reachable state, under any interleaving of
\* найти_или_создать_локацию calls, the locations table holds at most one
\* row per rounded coordinate pair (round(latitude, 5), round(longitude, 5)).
C19_OneLocationPerRoundedPair ==
    par.op = "lokatsiya" => OneRowPerRoundedIn(par.committed)

\* C17: сохранить_измерения called with an empty list returns (0, []) and
\* performs no storage operation: the storage, the connection and the
\* transaction state are what they were, and no statement is attempted.
C17_EmptyListNoStorage ==
    [][(save.pc = "entry" /\ save.batch = <<>>) =>
          /\ save'.pc = "returned"
          /\ save'.sohraneno = 0
          /\ save'.oshibki = <<>>
          /\ save'.queries = <<>>
          /\ save'.calls = <<>>
          /\ db' = db]_vars

\* The call with an empty list has returned; no connection was opened and
\* the unknown data source was not created.
C17_Witness ==
    /\ save.batch = <<>>
    /\ save.pc = "returned"
    /\ save.sohraneno = 0
    /\ save.oshibki = <<>>
    /\ db.conn = "none"
    /\ db.data_sources = {}

\* Record i ended with an exception raised by storage.
StorageFailedAt(i) ==
    \E k \in ErrorsOf(i) :
        /\ save.oshibki[k].kind = "neozhidannaya_oshibka"
        /\ save.oshibki[k].detail[1] \in StorageExceptions
InsertedFrom(j) == \E m \in db.measurements : m.origin = j
\* The records after a storage exception that have all required fields and
\* a resolvable parameter.
AfterStorageFailure ==
    {j \in 1..Len(save.batch) :
        /\ \E i \in 1..(j - 1) : StorageFailedAt(i)
        /\ Complete(save.batch[j])
        /\ Resolvable(save.batch[j])}

\* C18: an exception raised by storage while record i is handled does not
\* stop or spoil the records after it: every record j > i with all
\* required fields and a resolvable parameter is still inserted and
\* counted in сохранено.
C18_LaterRecordsStillSaved ==
    SaveReturned =>
        /\ \A j \in AfterStorageFailure : InsertedFrom(j)
        /\ save.sohraneno >= Cardinality(AfterStorageFailure)

(***************************************************************************)
(* Vocabulary of the claims about the response parsers.                    *)
(***************************************************************************)
ParserDone == fn.op \in {"rasparsit_otvet", "rasparsit_pogodnyy_otvet"} /\ fn.pc = "done"

\* C20: every record a response parser emits has been through the Value
\* Normalizer: no emitted record of a parameter other than temperature has
\* a negative value, and an emitted wind direction is below 360.
C20_EmittedRecordsNormalized ==
    ParserDone =>
        \A k \in 1..Len(fn.res) :
            /\ fn.res[k].parameter_name # "temperature" => fn.res[k].value >= 0
            /\ fn.res[k].parameter_name = "wind_direction" => fn.res[k].value < 360

(***************************************************************************)
(* Vocabulary of the claims about the multi-point response.                *)
(***************************************************************************)
MultiDone == fn.op = "rasparsit_multi_otvet" /\ fn.pc = "done"
ValidPoint(p) == -90 <= p.lat /\ p.lat <= 90 /\ -180 <= p.lon /\ p.lon <= 180
\* The configuration index of the i-th point with valid coordinates (0 when
\* there are fewer than i).
IthValid(grid_points, i) ==
    LET ks == {k \in 1..Len(grid_points) :
                  /\ ValidPoint(grid_points[k])
                  /\ Cardinality({j \in 1..k : ValidPoint(grid_points[j])}) = i}
    IN  IF ks = {} THEN 0 ELSE CHOOSE k \in ks : TRUE
Requested(grid_points) == Cardinality({k \in 1..Len(grid_points) : ValidPoint(grid_points[k])})
\* The response elements that carry values (element i carries the value i).
Bearing(otvet) ==
    {i \in 1..Len(otvet) :
        /\ "hourly" \in DOMAIN otvet[i]
        /\ "temperature_2m" \in DOMAIN otvet[i]["hourly"]}

\* C21: every record built from response element i carries the latitude,
\* longitude and station name of the i-th configured grid point with valid
\* coordinates, in configuration order; an element without 'hourly' yields
\* no record and does not shift the attribution of the later elements.
C21_PositionalAttribution ==
    MultiDone =>
        LET otvet == fn.args[1]
            grid_points == fn.args[2]
        IN  /\ \A k \in 1..Len(fn.res) :
                  LET i == fn.res[k].value IN
                  /\ i \in Bearing(otvet)
                  /\ IthValid(grid_points, i) # 0
                  /\ fn.res[k].latitude = grid_points[IthValid(grid_points, i)].lat
                  /\ fn.res[k].longitude = grid_points[IthValid(grid_points, i)].lon
                  /\ fn.res[k].station_name = grid_points[IthValid(grid_points, i)].name
            /\ \A i \in Bearing(otvet) :
                  i <= Requested(grid_points) =>
                     Cardinality({k \in 1..Len(fn.res) : fn.res[k].value = i})
                        = Cardinality(DOMAIN otvet[i]["hourly"] \ {"time"})

\* The first element has no 'hourly' and the configuration starts with the
\* point out of range: the record of element 2 carries the second valid
\* point.
C21_Witness ==
    /\ MultiDone
    /\ Len(fn.args[1]) >= 2
    /\ "hourly" \notin DOMAIN fn.args[1][1]
    /\ Len(fn.args[2]) = 3
    /\ ~ValidPoint(fn.args[2][1])
    /\ fn.args[2][2] # fn.args[2][3]
    /\ Len(fn.res) = 1
    /\ fn.res[1].value = 2
    /\ fn.res[1].station_name = fn.args[2][3].name

\* C22: when the number of elements of a multi-point response differs from
\* the number of requested points, no measurement is attributed to any
\* point.
C22_CountMismatchIsStructuralError ==
    (MultiDone /\ Len(fn.args[1]) # Requested(fn.args[2])) => fn.res = <<>>

\* C24: a non-null value whose timestamp does not parse is passed over and
\* the scan goes on to earlier indices: the value returned has a timestamp
\* that parses and no later index has both a non-null value and a timestamp
\* that parses; (None, None) is returned exactly when no index has both; a
\* timestamp with a trailing 'Z' is read as UTC (+00:00).
C24_UnparsableTimestampSkipped ==
    (ExtractorDone /\ fn.args[1] # <<>> /\ Len(fn.args[1]) = Len(fn.args[2])) =>
        LET ryad == fn.args[1]
            metki == fn.args[2]
            hits == {i \in 1..Len(ryad) :
                        /\ ryad[i] # None
                        /\ Parses(metki[i])
                        /\ fn.res.val = ryad[i]
                        /\ fn.res.ts # None
                        /\ fn.res.ts[2] = metki[i][2]
                        /\ \A j \in (i + 1)..Len(ryad) : ryad[j] = None \/ ~Parses(metki[j])}
        IN  /\ fn.res.raised = "none"
            /\ (Usable(ryad, metki) = {}) <=> IsNoData(fn.res)
            /\ ~IsNoData(fn.res) => hits # {}
            /\ \A i \in hits : metki[i][3] = "Z" => fn.res.ts[3] = "+00:00"

\* The last value is non-null under a label that does not parse, the one
\* before it is non-null under a label ending in Z, and that one is returned
\* as a UTC datetime.
C24_Witness ==
    /\ ExtractorDone
    /\ Len(fn.args[1]) = 3
    /\ Len(fn.args[2]) = 3
    /\ fn.args[1][3] # None
    /\ fn.args[2][3] = BadMetka
    /\ fn.args[1][2] = Num(12)
    /\ fn.args[2][2] = Metka(2, "Z")
    /\ fn.res.val = Num(12)
    /\ fn.res.ts = <<"datetime", 2, "+00:00">>

(***************************************************************************)
(* Vocabulary of the claim about the exit code.                            *)
(***************************************************************************)
MainDone == fn.op = "main" /\ fn.pc = "done"
TotalErrors(rezultaty) ==
    Len(rezultaty[Fetchers[1]].oshibki) + Len(rezultaty[Fetchers[2]].oshibki)
TotalSaved(rezultaty) == rezultaty[Fetchers[1]].sohraneno + rezultaty[Fetchers[2]].sohraneno

\* C30: main returns 1 when the error strings of all sources together are
\* more than zero; otherwise 2 when nothing was saved by any source;
\* otherwise 0; and 3 only when the orchestration raises.
C30_ExitCode ==
    MainDone =>
        LET vyzov == fn.args[1] IN
        /\ fn.res = 3 => vyzov.raised # "none"
        /\ vyzov.raised = "none" =>
              fn.res = (IF TotalErrors(vyzov.rezultaty) > 0 THEN 1
                        ELSE IF TotalSaved(vyzov.rezultaty) = 0 THEN 2
                        ELSE 0)

\* One source reports an error and nothing was saved anywhere: the code is 1,
\* not 2.
C30_Witness ==
    /\ MainDone
    /\ fn.args[1].raised = "none"
    /\ TotalErrors(fn.args[1].rezultaty) = 1
    /\ TotalSaved(fn.args[1].rezultaty) = 0
    /\ fn.res = 1

(***************************************************************************)
(* Vocabulary of the claims about the fetchers.                            *)
(***************************************************************************)
AirFetchDone == fn.op = "sobrat_dannye_o_kachestve_vozduha" /\ fn.pc = "done"
WeatherFetchDone == fn.op = "sobrat_pogodnye_dannye" /\ fn.pc = "done"
\* The payload is a non-empty object without 'hourly', or with an 'hourly'
\* object that has no 'time'.
NoContainer(otvet) ==
    /\ otvet # None
    /\ DOMAIN otvet[2] # {}
    /\ \/ "hourly" \notin DOMAIN otvet[2]
       \/ /\ otvet[2]["hourly"] # Null
          /\ "time" \notin DOMAIN otvet[2]["hourly"]

C27_OneCallForAllPoints ==
    WeatherFetchDone =>
        LET grid_points == fn.args[1] IN
        IF Requested(grid_points) > 0
        THEN /\ Len(fn.res.zaprosy) = 1
             /\ Len(fn.res.zaprosy[1].latitude) = Requested(grid_points)
             /\ Len(fn.res.zaprosy[1].longitude) = Requested(grid_points)
             /\ \A i \in 1..Requested(grid_points) :
                   /\ fn.res.zaprosy[1].latitude[i] = grid_points[IthValid(grid_points, i)].lat
                   /\ fn.res.zaprosy[1].longitude[i] = grid_points[IthValid(grid_points, i)].lon
        ELSE /\ fn.res.zaprosy = <<>>
             /\ fn.res.pc = "return"
             /\ fn.res.ret.polucheno = 0
             /\ Len(fn.res.ret.oshibki) = 1

\* Three points are configured, two of them valid: one call names both.
C27_Witness ==
    /\ WeatherFetchDone
    /\ Len(fn.args[1]) = 3
    /\ Requested(fn.args[1]) = 2
    /\ Len(fn.res.zaprosy) = 1
    /\ Len(fn.res.zaprosy[1].latitude) = 2
    /\ fn.res.pc = "sohranit_izmereniya"

(***************************************************************************)
(* Vocabulary of the claim about the result mappings.                      *)
(***************************************************************************)
Accounted(r) ==
    /\ 0 <= r.sohraneno
    /\ r.sohraneno <= r.polucheno
    /\ r.polucheno = 0 => (r.sohraneno = 0 /\ Len(r.oshibki) = 1)
    /\ r.polucheno > 0 => r.sohraneno + Len(r.oshibki) = r.polucheno

\* C28: every result mapping a fetcher returned or the orchestrator built
\* has 0 <= сохранено <= получено; with получено = 0 it has сохранено = 0
\* and exactly one message; with получено > 0 every record was either saved
\* or left exactly one error string: сохранено + len(ошибки) = получено.
C28_ResultAccounting ==
    \A f \in DOMAIN orch.rezultaty : Accounted(orch.rezultaty[f])

\* Both fetchers have reported: one received two records, the other none.
C28_Witness ==
    /\ orch.pc = "done"
    /\ \E f \in DOMAIN orch.rezultaty :
          /\ orch.rezultaty[f].polucheno = 2
          /\ Len(orch.rezultaty[f].oshibki) = 2
    /\ \E f \in DOMAIN orch.rezultaty : orch.rezultaty[f].polucheno = 0

(***************************************************************************)
(* Vocabulary of the claim about the order of persisting.                  *)
(***************************************************************************)
WeatherRun == fn.op = "sobrat_pogodnye_dannye" /\ fn.pc \in {"saving", "returned"}
\* The place of a parameter in the weather parameter mapping.
MappingOrder(name) == CHOOSE k \in 1..Len(WeatherKeys) : PARAMETER_MAPPING[WeatherKeys[k]] = name
\* Record a was extracted before record b: from an earlier point, or from
\* the same point under an earlier parameter (the value names the point).
ExtractedBefore(a, b) ==
    \/ a.value[2] < b.value[2]
    \/ /\ a.value[2] = b.value[2]
       /\ MappingOrder(a.parameter_name) < MappingOrder(b.parameter_name)

\* C25: the records are taken up by сохранить_измерения in the order of its
\* input list - the statements and the calls of создать_измерение of record
\* i come before those of record j whenever i < j, each call with the data
\* of its own record - and the input list of a weather run is in extraction
\* order: point order, then parameter-mapping order.
C25_PersistedInExtractionOrder ==
    WeatherRun =>
        /\ \A k, l \in 1..Len(save.queries) : k < l => save.queries[k].idx <= save.queries[l].idx
        /\ \A k, l \in 1..Len(save.calls) : k < l => save.calls[k].idx < save.calls[l].idx
        /\ \A k \in 1..Len(save.calls) :
              /\ save.calls[k].value = save.batch[save.calls[k].idx].value[2]
              /\ save.calls[k].latitude = save.batch[save.calls[k].idx].latitude
        /\ \A k, l \in 1..Len(save.batch) : k < l => ExtractedBefore(save.batch[k], save.batch[l])

\* Two points answered, the first with two parameters: three records were
\* handed over, and создать_измерение was called for the temperature of the
\* first point and then for that of the second.
C25_Witness ==
    /\ WeatherRun
    /\ save.pc = "returned"
    /\ Len(save.batch) = 3
    /\ save.batch[1].parameter_name = "temperature"
    /\ save.batch[2].parameter_name = "precipitation"
    /\ save.batch[3].latitude # save.batch[1].latitude
    /\ Len(save.calls) = 2
    /\ save.calls[1].idx = 1
    /\ save.calls[2].idx = 3

(***************************************************************************)
(* Vocabulary of the claim about the history loader.                       *)
(***************************************************************************)
HistDone == fn.op = "zagruzit_istoriyu_pogody" /\ fn.pc = "done"
CallsAt(zhurnal) == {k \in 1..Len(zhurnal) : zhurnal[k].ev = "zapros"}

\* C26: the loader issues exactly one outbound call per point, and between
\* any two consecutive calls the fixed delay elapses, whether the earlier
\* call brought data, brought none, or ended in an exception.
C26_DelayBetweenCalls ==
    HistDone =>
        LET zhurnal == fn.res.zhurnal IN
        /\ \A i \in 1..Len(fn.args[1]) :
              Cardinality({k \in CallsAt(zhurnal) : zhurnal[k].idx = i}) = 1
        /\ Cardinality(CallsAt(zhurnal)) = Len(fn.args[1])
        /\ \A k, l \in CallsAt(zhurnal) :
              k < l => \E m \in (k + 1)..(l - 1) : zhurnal[m] = Sleep

(***************************************************************************)
(* Vocabulary of the claim about the connection's life.                    *)
(***************************************************************************)
CtxRun == fn.op = "app_context"
CtxEnded == CtxRun /\ fn.pc \in {"ended", "closed_again"}
Closes(zhurnal) == {k \in 1..Len(zhurnal) : zhurnal[k].ev = "close"}

\* C29: in one application context at most one connection is opened and
\* every statement goes to it; when the context ends the connection is
\* closed exactly once, right after the commit (no exception) or the
\* rollback (exception), whether or not that succeeded; afterwards no
\* connection is open, and a further close_db does nothing.
C29_OneConnectionClosedOnce ==
    CtxRun =>
        /\ Len(fn.conns) <= 1
        /\ \A k \in 1..Len(fn.used) : fn.used[k].conn # 0 => fn.used[k].conn = 1
        /\ CtxEnded =>
              /\ \A c \in 1..Len(fn.conns) : fn.conns[c] = "closed"
              /\ db.conn = "none"
              /\ Cardinality(Closes(fn.zhurnal)) = Len(fn.conns)
              /\ \A k \in Closes(fn.zhurnal) :
                    k > 1 /\ fn.zhurnal[k - 1].ev \in {"commit", "rollback"}
              /\ Len(fn.zhurnal) = 2 * Len(fn.conns)

\* Two statements went to the connection, the commit at the end of the
\* context failed, the connection was closed all the same, and a second
\* close_db added nothing.
C29_Witness ==
    /\ CtxRun
    /\ fn.pc = "closed_again"
    /\ Len(fn.used) = 2
    /\ fn.used[1].conn = 1
    /\ fn.used[2].conn = 1
    /\ fn.conns = <<"closed">>
    /\ fn.zhurnal = << [ev |-> "commit", ok |-> FALSE], [ev |-> "close", ok |-> TRUE] >>

=============================================================================
